---- MODULE Spec2Model ----
(***************************************************************************)
(* The decision core of solana-agent-sdk: the intent parser                *)
(* (src/modules/nlp.ts), the safety evaluator (src/modules/safety.ts) and  *)
(* the simulation previewer (src/modules/simulate.ts), and the life cycle  *)
(* of the Drift client (src/modules/drift.ts).                             *)
(*                                                                         *)
(* JavaScript strings that the code analyses character by character are    *)
(* sequences of one-character strings; fixed message literals are          *)
(* one-element sequences holding the literal.  null and undefined are the  *)
(* sequences Null and Undefined, which no string of the program equals.    *)
(* Amounts are integers counting thousandths; confidences are integers     *)
(* counting tenths (0.8 + 0.1 is exactly the double 0.9 in IEEE-754, so    *)
(* the comparisons of the code come out the same).                         *)
(***************************************************************************)
EXTENDS Integers, Sequences, FiniteSets, TLC

VARIABLES
    text,        \* nlp: the argument of parseIntent
    intent,      \* nlp: the ParsedIntent under consideration
    origin,      \* nlp: "parseIntent" or "caller", who made the intent
    complete,    \* nlp: result of isIntentComplete(intent)
    execParams,  \* nlp: result of intentToParams(intent)
    nlpPc,       \* nlp: position of the caller
    calls,       \* nlp: the parseIntent calls made so far, with their results
    norm,        \* nlp: an input of normalizeToken and what it was mapped to
    detected,    \* nlp: the action and confidence parseIntent holds after line 76
    sfCall,      \* safety: the call in progress and its arguments
    sfLookup,    \* safety: how connection.getBalance settled
    sfResult,    \* safety: what the caller's promise settled to
    sfPc,        \* safety: position of the call
    sfQuick,     \* safety: what quickSafetyCheck made of the report
    smCall,      \* simulate: the arguments of simulateTransaction
    smTx,        \* simulate: the transaction object handed in
    smFailure,   \* simulate: the step that threw, and its message
    smResult,    \* simulate: what the caller's promise settled to
    smPc,        \* simulate: position of the call
    smRemote,    \* simulate: the remote calls issued, in order
    smResponse,  \* simulate: simulation.value, what the simulate call resolved to
    smAnswer,    \* simulate: what the function built on simulateTransaction
                 \* returned to its caller
    ccCalls,     \* simulate, two calls at once: each call's locals and position
    ccTx,        \* simulate, two calls at once: the transaction objects
    drWallet,    \* drift: the wallet holds a keypair
    drClients,   \* drift: the DriftClient objects created so far
    drClient,    \* drift: this.driftClient, 0 for null
    drIsInitialized, \* drift: this.isInitialized
    drSubscribing,   \* drift: clients whose subscribe() is awaited by initialize
    drUnsubscribing, \* drift: clients whose unsubscribe() is awaited by cleanup
    drLog,       \* drift: how the initialize and cleanup calls ended, in order
    drOp         \* drift: the operation called last and how its guard ended

nlpVars == <<text, intent, origin, complete, execParams, nlpPc, calls, norm, detected>>
safetyVars == <<sfCall, sfLookup, sfResult, sfPc, sfQuick>>
simVars == <<smCall, smTx, smFailure, smResult, smPc, smRemote, smAnswer, smResponse>>

concVars == <<ccCalls, ccTx>>
driftVars == <<drWallet, drClients, drClient, drIsInitialized, drSubscribing,
               drUnsubscribing, drLog, drOp>>
vars == <<nlpVars, safetyVars, simVars, concVars, driftVars>>

Null == <<"null">>
Undefined == <<"undefined">>
NullObject == [null |-> TRUE]
EmptyObject == [k \in {} |-> Undefined]

Min(S) == CHOOSE m \in S : \A n \in S : m <= n

\* the value of a one-element set: Only({e(x) : x \in {v}}) is e(v), with
\* v evaluated once
Only(S) == CHOOSE x \in S : TRUE

-----------------------------------------------------------------------------
(* Characters and the String methods the parser uses.                      *)

UpperAlpha == <<"A","B","C","D","E","F","G","H","I","J","K","L","M",
                "N","O","P","Q","R","S","T","U","V","W","X","Y","Z">>
LowerAlpha == <<"a","b","c","d","e","f","g","h","i","j","k","l","m",
                "n","o","p","q","r","s","t","u","v","w","x","y","z">>
DigitSeq == <<"0","1","2","3","4","5","6","7","8","9">>

UpperLetters == {UpperAlpha[i] : i \in DOMAIN UpperAlpha}
LowerLetters == {LowerAlpha[i] : i \in DOMAIN LowerAlpha}
Letters == UpperLetters \cup LowerLetters
Digits == {DigitSeq[i] : i \in DOMAIN DigitSeq}
Whitespace == {" "}
WordChars == Letters \cup Digits \cup {"_"}
AnyChar == WordChars \cup Whitespace \cup {"?", "'", ".", "@", "-", ">"}

ToLowerChar(c) ==
    IF c \in UpperLetters
    THEN LowerAlpha[CHOOSE i \in DOMAIN UpperAlpha : UpperAlpha[i] = c]
    ELSE c

ToUpperChar(c) ==
    IF c \in LowerLetters
    THEN UpperAlpha[CHOOSE i \in DOMAIN LowerAlpha : LowerAlpha[i] = c]
    ELSE c

toLowerCase(s) == [i \in 1..Len(s) |-> ToLowerChar(s[i])]
toUpperCase(s) == [i \in 1..Len(s) |-> ToUpperChar(s[i])]

RECURSIVE trimStart(_)
trimStart(s) ==
    IF s # <<>> /\ Head(s) \in Whitespace THEN trimStart(Tail(s)) ELSE s

RECURSIVE trimEnd(_)
trimEnd(s) ==
    IF s # <<>> /\ s[Len(s)] \in Whitespace
    THEN trimEnd(SubSeq(s, 1, Len(s) - 1))
    ELSE s

trim(s) == trimEnd(trimStart(s))

\* s.startsWith(lit, i), positions counted from 1
StartsAt(s, i, lit) ==
    /\ i + Len(lit) - 1 <= Len(s)
    /\ \A k \in 1..Len(lit) : s[i + k - 1] = lit[k]

includes(s, k) == \E i \in 1..Len(s) : StartsAt(s, i, k)

\* end (exclusive) of the longest run of characters of class C starting at i:
\* what a greedy C* consumes from position i
RunEnd(s, i, C) ==
    CHOOSE j \in i..(Len(s) + 1) :
        /\ \A k \in i..(j - 1) : s[k] \in C
        /\ (j = Len(s) + 1 \/ s[j] \notin C)

\* s.split(/\s+/) of a trimmed string
RECURSIVE split(_)
split(s) ==
    LET e == RunEnd(s, 1, AnyChar \ Whitespace)
        r == RunEnd(s, e, Whitespace)
    IN  IF e > Len(s) THEN <<SubSeq(s, 1, e - 1)>>
        ELSE IF r > Len(s) THEN <<SubSeq(s, 1, e - 1), <<>>>>
        ELSE <<SubSeq(s, 1, e - 1)>> \o split(SubSeq(s, r, Len(s)))

\* s.replace(/[^a-z0-9]/g, '')
keepAlnum(s) == SelectSeq(s, LAMBDA c : c \in LowerLetters \cup Digits)

DigitVal(c) == (CHOOSE i \in DOMAIN DigitSeq : DigitSeq[i] = c) - 1

RECURSIVE ParseDigits(_)
ParseDigits(ds) ==
    IF ds = <<>> THEN 0
    ELSE ParseDigits(SubSeq(ds, 1, Len(ds) - 1)) * 10 + DigitVal(ds[Len(ds)])

\* parseFloat of a string matched by \d+(?:\.\d+)?, in thousandths (exact for
\* up to three fraction digits)
parseFloat(str) ==
    LET e == RunEnd(str, 1, Digits)
        frac == IF e < Len(str) THEN SubSeq(str, e + 1, Len(str)) ELSE <<>>
        frac3 == SubSeq(frac \o <<"0", "0", "0">>, 1, 3)
    IN  ParseDigits(SubSeq(str, 1, e - 1)) * 1000 + ParseDigits(frac3)

-----------------------------------------------------------------------------
(* nlp.ts: tables.                                                         *)

TOKEN_ALIASES == <<
    <<<<"s","o","l">>, <<"S","O","L">>>>,
    <<<<"s","o","l","a","n","a">>, <<"S","O","L">>>>,
    <<<<"u","s","d","c">>, <<"U","S","D","C">>>>,
    <<<<"u","s","d","t">>, <<"U","S","D","T">>>>,
    <<<<"t","e","t","h","e","r">>, <<"U","S","D","T">>>>,
    <<<<"b","o","n","k">>, <<"B","O","N","K">>>>,
    <<<<"j","u","p">>, <<"J","U","P">>>>,
    <<<<"j","u","p","i","t","e","r">>, <<"J","U","P">>>>,
    <<<<"r","a","y">>, <<"R","A","Y">>>>,
    <<<<"r","a","y","d","i","u","m">>, <<"R","A","Y">>>>,
    <<<<"w","i","f">>, <<"W","I","F">>>>,
    <<<<"d","o","g","w","i","f","h","a","t">>, <<"W","I","F">>>>,
    <<<<"j","i","t","o">>, <<"J","T","O">>>>,
    <<<<"p","y","t","h">>, <<"P","Y","T","H">>>>,
    <<<<"o","r","c","a">>, <<"O","R","C","A">>>>,
    <<<<"m","s","o","l">>, <<"m","S","O","L">>>>,
    <<<<"m","a","r","i","n","a","d","e">>, <<"m","S","O","L">>>>,
    <<<<"b","s","o","l">>, <<"b","S","O","L">>>>,
    <<<<"e","t","h">>, <<"E","T","H">>>>,
    <<<<"e","t","h","e","r","e","u","m">>, <<"E","T","H">>>>,
    <<<<"w","e","t","h">>, <<"W","E","T","H">>>>,
    <<<<"b","t","c">>, <<"B","T","C">>>>,
    <<<<"b","i","t","c","o","i","n">>, <<"B","T","C">>>>,
    <<<<"w","b","t","c">>, <<"W","B","T","C">>>>>>

SWAP_KEYWORDS == <<
    <<"s","w","a","p">>,
    <<"e","x","c","h","a","n","g","e">>,
    <<"t","r","a","d","e">>,
    <<"c","o","n","v","e","r","t">>,
    <<"b","u","y">>,
    <<"s","e","l","l">>>>
TRANSFER_KEYWORDS == <<
    <<"s","e","n","d">>,
    <<"t","r","a","n","s","f","e","r">>,
    <<"p","a","y">>,
    <<"g","i","v","e">>>>
STAKE_KEYWORDS == <<
    <<"s","t","a","k","e">>,
    <<"d","e","p","o","s","i","t">>,
    <<"l","e","n","d">>,
    <<"s","u","p","p","l","y">>,
    <<"p","r","o","v","i","d","e">>>>
BALANCE_KEYWORDS == <<
    <<"b","a","l","a","n","c","e">>,
    <<"h","o","w"," ","m","u","c","h">>,
    <<"c","h","e","c","k">>,
    <<"s","h","o","w">>,
    <<"w","a","l","l","e","t">>>>
PRICE_KEYWORDS == <<
    <<"p","r","i","c","e">>,
    <<"w","o","r","t","h">>,
    <<"v","a","l","u","e">>,
    <<"c","o","s","t">>,
    <<"q","u","o","t","e">>>>

\* KEYWORDS.some(k => lower.includes(k))
someIncluded(keywords, lower) ==
    \E k \in DOMAIN keywords : includes(lower, keywords[k])

-----------------------------------------------------------------------------
(* nlp.ts: normalizeToken.                                                 *)

\* TOKEN_ALIASES is an object literal, so TOKEN_ALIASES[lower] also finds the
\* properties it inherits from Object.prototype; the only one whose name
\* consists of a-z and 0-9 is constructor, the function Object
InheritedKey == <<"c","o","n","s","t","r","u","c","t","o","r">>
ObjectFunction == <<"function Object() { [native code] }">>

\* what calling input.toLowerCase() throws when input is not a string
NotAString == <<"TypeError: input.toLowerCase is not a function">>

\* normalizeToken of a string
normalizeString(input) ==
    LET lower == keepAlnum(toLowerCase(input))
        hits == {a \in DOMAIN TOKEN_ALIASES : TOKEN_ALIASES[a][1] = lower}
    IN  IF hits # {} THEN TOKEN_ALIASES[CHOOSE a \in hits : TRUE][2]
        ELSE IF lower = InheritedKey THEN ObjectFunction
        ELSE IF Len(lower) >= 2 /\ Len(lower) <= 10 THEN toUpperCase(lower)
        ELSE Null

normalizeToken(input) ==
    IF input = ObjectFunction THEN NotAString ELSE normalizeString(input)

-----------------------------------------------------------------------------
(* nlp.ts: the regular expressions of parseIntent, each as the leftmost    *)
(* match a backtracking matcher finds.  A match is a record with found and *)
(* the capture groups g1, g2, g3; an unmatched optional group is Undefined.*)

NoMatch == [found |-> FALSE]

\* end of \d+(?:\.\d+)? matched greedily from the digit at i
NumberEnd(s, i) ==
    LET e == RunEnd(s, i, Digits)
    IN  IF e + 1 <= Len(s) /\ s[e] = "." /\ s[e + 1] \in Digits
        THEN RunEnd(s, e + 1, Digits)
        ELSE e

\* \s+ at position e followed by a character of class C
WsThen(s, e, C) ==
    /\ e <= Len(s)
    /\ s[e] \in Whitespace
    /\ LET w == RunEnd(s, e, Whitespace) IN w <= Len(s) /\ s[w] \in C

\* the alternatives of alts (in order) that match at i, as end positions
AltEnds(s, i, alts) ==
    {i + Len(alts[a]) : a \in {b \in DOMAIN alts : StartsAt(s, i, alts[b])}}

\* /(\d+(?:\.\d+)?)\s*([a-zA-Z]+)?/
amountRegex(s) ==
    LET starts == {i \in 1..Len(s) : s[i] \in Digits}
    IN  IF starts = {} THEN NoMatch
        ELSE LET i == Min(starts)
                 e == NumberEnd(s, i)
                 w == RunEnd(s, e, Whitespace)
                 l == RunEnd(s, w, Letters)
             IN  [found |-> TRUE,
                  g1 |-> SubSeq(s, i, e - 1),
                  g2 |-> IF l > w THEN SubSeq(s, w, l - 1) ELSE Undefined]

SwapAlts == << <<"f","o","r">>, <<"t","o">>, <<"i","n","t","o">>, <<"→">>, <<"-",">">> >>

\* /(?:for|to|into|→|->)\s+([a-zA-Z]+)/
swapRegex(s) ==
    LET ends(i) == {e \in AltEnds(s, i, SwapAlts) : WsThen(s, e, Letters)}
        starts == {i \in 1..Len(s) : ends(i) # {}}
    IN  IF starts = {} THEN NoMatch
        ELSE LET i == Min(starts)
                 w == RunEnd(s, CHOOSE e \in ends(i) : TRUE, Whitespace)
             IN  [found |-> TRUE, g1 |-> SubSeq(s, w, RunEnd(s, w, Letters) - 1)]

BuyAlts == << <<"w","i","t","h">>, <<"u","s","i","n","g">> >>

\* the match of the buy pattern that starts at i, or NoMatch
buyAt(s, i) ==
    IF ~(StartsAt(s, i, <<"b","u","y">>) /\ WsThen(s, i + 3, Letters)) THEN NoMatch
    ELSE LET w1 == RunEnd(s, i + 3, Whitespace)
             l1 == RunEnd(s, w1, Letters)
         IN  IF ~WsThen(s, l1, AnyChar) THEN NoMatch
             ELSE LET w2 == RunEnd(s, l1, Whitespace)
                      ends == {e \in AltEnds(s, w2, BuyAlts) : WsThen(s, e, Digits)}
                  IN  IF ends = {} THEN NoMatch
                      ELSE LET d == RunEnd(s, CHOOSE e \in ends : TRUE, Whitespace)
                               e2 == NumberEnd(s, d)
                               w3 == RunEnd(s, e2, Whitespace)
                               l3 == RunEnd(s, w3, Letters)
                           IN  [found |-> TRUE,
                                g1 |-> SubSeq(s, w1, l1 - 1),
                                g2 |-> SubSeq(s, d, e2 - 1),
                                g3 |-> IF l3 > w3 THEN SubSeq(s, w3, l3 - 1)
                                       ELSE Undefined]

\* /buy\s+([a-zA-Z]+)\s+(?:with|using)\s+(\d+(?:\.\d+)?)\s*([a-zA-Z]+)?/
buyRegex(s) ==
    LET starts == {i \in 1..Len(s) : buyAt(s, i).found}
    IN  IF starts = {} THEN NoMatch ELSE buyAt(s, Min(starts))

SellAlts == << <<"f","o","r">>, <<"i","n","t","o">> >>

\* the match of the sell pattern that starts at i, or NoMatch
sellAt(s, i) ==
    IF ~(StartsAt(s, i, <<"s","e","l","l">>) /\ WsThen(s, i + 4, Digits)) THEN NoMatch
    ELSE LET d == RunEnd(s, i + 4, Whitespace)
             e == NumberEnd(s, d)
             w1 == RunEnd(s, e, Whitespace)
             l1 == RunEnd(s, w1, Letters)
         IN  IF ~(l1 > w1 /\ WsThen(s, l1, AnyChar)) THEN NoMatch
             ELSE LET w2 == RunEnd(s, l1, Whitespace)
                      ends == {x \in AltEnds(s, w2, SellAlts) : WsThen(s, x, Letters)}
                  IN  IF ends = {} THEN NoMatch
                      ELSE LET w3 == RunEnd(s, CHOOSE x \in ends : TRUE, Whitespace)
                           IN  [found |-> TRUE,
                                g1 |-> SubSeq(s, d, e - 1),
                                g2 |-> SubSeq(s, w1, l1 - 1),
                                g3 |-> SubSeq(s, w3, RunEnd(s, w3, Letters) - 1)]

\* /sell\s+(\d+(?:\.\d+)?)\s*([a-zA-Z]+)\s+(?:for|into)\s+([a-zA-Z]+)/
sellRegex(s) ==
    LET starts == {i \in 1..Len(s) : sellAt(s, i).found}
    IN  IF starts = {} THEN NoMatch ELSE sellAt(s, Min(starts))

AddressMinLen == 32
AddressMaxLen == 44
Base58Chars ==
    (Digits \ {"0"}) \cup (UpperLetters \ {"I", "O"}) \cup (LowerLetters \ {"l"})

\* /([1-9A-HJ-NP-Za-km-z]{32,44})/
addressRegex(s) ==
    LET starts == {i \in 1..Len(s) : RunEnd(s, i, Base58Chars) - i >= AddressMinLen}
    IN  IF starts = {} THEN NoMatch
        ELSE LET i == Min(starts)
                 e == RunEnd(s, i, Base58Chars)
             IN  [found |-> TRUE,
                  g1 |-> SubSeq(s, i, Min({e - 1, i + AddressMaxLen - 1}))]

\* start of the captured \w+ of the recipient-name pattern matched at i, or 0
toNameStart(s, i) ==
    IF ~(StartsAt(s, i, <<"t","o">>) /\ WsThen(s, i + 2, WordChars \cup {"@"})) THEN 0
    ELSE LET w == RunEnd(s, i + 2, Whitespace)
         IN  IF s[w] \in WordChars THEN w
             ELSE IF w + 1 <= Len(s) /\ s[w + 1] \in WordChars THEN w + 1
             ELSE 0

\* /to\s+@?(\w+)/
toRegex(s) ==
    LET starts == {i \in 1..Len(s) : toNameStart(s, i) # 0}
    IN  IF starts = {} THEN NoMatch
        ELSE LET w == toNameStart(s, Min(starts))
             IN  [found |-> TRUE, g1 |-> SubSeq(s, w, RunEnd(s, w, WordChars) - 1)]

-----------------------------------------------------------------------------
(* JavaScript objects are functions from keys to values; a key whose value  *)
(* is undefined is left out (reading it yields undefined either way).       *)

Put(obj, k, v) == [x \in DOMAIN obj \cup {k} |-> IF x = k THEN v ELSE obj[x]]

\* !!obj[k] for a string-valued key
TruthyString(obj, k) == k \in DOMAIN obj /\ obj[k] \notin {Null, Undefined, <<>>}

\* !!obj[k] for a number-valued key
TruthyNumber(obj, k) == k \in DOMAIN obj /\ obj[k] # 0

-----------------------------------------------------------------------------
(* nlp.ts: parseIntent, step by step.                                      *)

Actions == {"swap", "transfer", "stake", "balance", "price", "unknown"}
\* a detection that looks for transfer keywords before swap keywords
detectActionTransferFirst(lower) ==
    IF someIncluded(TRANSFER_KEYWORDS, lower)
    THEN [action |-> "transfer", confidence |-> 8]
    ELSE IF someIncluded(SWAP_KEYWORDS, lower) THEN [action |-> "swap", confidence |-> 8]
    ELSE IF someIncluded(STAKE_KEYWORDS, lower)
         THEN [action |-> "stake", confidence |-> 7]
    ELSE IF someIncluded(BALANCE_KEYWORDS, lower)
         THEN [action |-> "balance", confidence |-> 9]
    ELSE IF someIncluded(PRICE_KEYWORDS, lower)
         THEN [action |-> "price", confidence |-> 9]
    ELSE [action |-> "unknown", confidence |-> 0]

\* lines 57-76: the action and its base confidence (tenths)
detectAction(lower) ==
    IF someIncluded(SWAP_KEYWORDS, lower) THEN [action |-> "swap", confidence |-> 8]
    ELSE IF someIncluded(TRANSFER_KEYWORDS, lower)
         THEN [action |-> "transfer", confidence |-> 8]
    ELSE IF someIncluded(STAKE_KEYWORDS, lower)
         THEN [action |-> "stake", confidence |-> 7]
    ELSE IF someIncluded(BALANCE_KEYWORDS, lower)
         THEN [action |-> "balance", confidence |-> 9]
    ELSE IF someIncluded(PRICE_KEYWORDS, lower)
         THEN [action |-> "price", confidence |-> 9]
    ELSE [action |-> "unknown", confidence |-> 0]

\* an extraction that fills one params object kept between the calls
extractAmountShared(lower) ==
    LET m == amountRegex(lower)
    IN  IF ~m.found THEN intent.params
        ELSE Put(intent.params, "amount", parseFloat(m.g1))

\* lines 80-88: amount and input token, whatever the action is
extractAmount(lower) ==
    LET m == amountRegex(lower)
    IN  IF ~m.found THEN EmptyObject
        ELSE LET p == Put(EmptyObject, "amount", parseFloat(m.g1))
             IN  IF m.g2 # Undefined /\ normalizeToken(m.g2) # Null
                 THEN Put(p, "inputToken", normalizeToken(m.g2))
                 ELSE p

\* lines 92-97: the for/to/into pattern
refineSwapFor(st, lower) ==
    LET m == swapRegex(lower)
    IN  IF ~m.found THEN st
        ELSE [params |-> IF normalizeToken(m.g1) # Null
                         THEN Put(st.params, "outputToken", normalizeToken(m.g1))
                         ELSE st.params,
              confidence |-> st.confidence + 1]

\* lines 99-106: "buy X with Y"
refineSwapBuy(st, lower) ==
    LET m == buyRegex(lower)
    IN  IF ~m.found THEN st
        ELSE LET p1 == Put(st.params, "outputToken", normalizeToken(m.g1))
                 p2 == Put(p1, "amount", parseFloat(m.g2))
             IN  [params |-> IF m.g3 # Undefined
                             THEN Put(p2, "inputToken", normalizeToken(m.g3))
                             ELSE p2,
                  confidence |-> 9]

\* lines 108-115: "sell X for Y"
refineSwapSell(st, lower) ==
    LET m == sellRegex(lower)
    IN  IF ~m.found THEN st
        ELSE [params |-> Put(Put(Put(st.params, "amount", parseFloat(m.g1)),
                                 "inputToken", normalizeToken(m.g2)),
                             "outputToken", normalizeToken(m.g3)),
              confidence |-> 9]

\* lines 119-132: the recipient of a transfer
refineTransfer(st, lower) ==
    LET addressMatch == addressRegex(lower)
        toMatch == toRegex(lower)
    IN  IF addressMatch.found
        THEN [params |-> Put(st.params, "recipient", addressMatch.g1),
              confidence |-> st.confidence + 1]
        ELSE IF toMatch.found
        THEN [params |-> Put(st.params, "recipientName", toMatch.g1),
              confidence |-> st.confidence]
        ELSE st

\* lines 135-143: the first word that normalizes is the token of a price query
refinePrice(st, words) ==
    LET hits == {i \in DOMAIN words : normalizeToken(words[i]) # Null}
    IN  IF hits = {} THEN st
        ELSE [params |-> Put(st.params, "token", normalizeToken(words[Min(hits)])),
              confidence |-> st.confidence]
\* a clarification that asks for the amount before the tokens and the recipient
clarificationAmountFirst(action, params) ==
    IF action = "swap"
    THEN IF ~TruthyNumber(params, "amount")
         THEN <<"How much do you want to swap?">>
         ELSE IF ~TruthyString(params, "inputToken")
         THEN <<"Which token do you want to swap FROM?">>
         ELSE IF ~TruthyString(params, "outputToken")
         THEN <<"Which token do you want to swap TO?">>
         ELSE Undefined
    ELSE IF action = "transfer"
    THEN IF ~TruthyNumber(params, "amount")
         THEN <<"How much do you want to send?">>
         ELSE IF ~TruthyString(params, "recipient") /\ ~TruthyString(params, "recipientName")
         THEN <<"Who do you want to send to?">>
         ELSE Undefined
    ELSE Undefined
\* a clarification that also asks a stake for its amount
clarificationStakeAmount(action, params) ==
    IF action = "swap"
    THEN IF ~TruthyString(params, "inputToken")
         THEN <<"Which token do you want to swap FROM?">>
         ELSE IF ~TruthyString(params, "outputToken")
         THEN <<"Which token do you want to swap TO?">>
         ELSE IF ~TruthyNumber(params, "amount")
         THEN <<"How much do you want to swap?">>
         ELSE Undefined
    ELSE IF action = "transfer"
    THEN IF ~TruthyString(params, "recipient") /\ ~TruthyString(params, "recipientName")
         THEN <<"Who do you want to send to?">>
         ELSE IF ~TruthyNumber(params, "amount")
         THEN <<"How much do you want to send?">>
         ELSE Undefined
    ELSE IF action = "stake" /\ ~TruthyNumber(params, "amount")
    THEN <<"How much do you want to stake?">>
    ELSE Undefined

\* lines 146-157
clarificationFor(action, params) ==
    IF action = "swap"
    THEN IF ~TruthyString(params, "inputToken")
         THEN <<"Which token do you want to swap FROM?">>
         ELSE IF ~TruthyString(params, "outputToken")
         THEN <<"Which token do you want to swap TO?">>
         ELSE IF ~TruthyNumber(params, "amount")
         THEN <<"How much do you want to swap?">>
         ELSE Undefined
    ELSE IF action = "transfer"
    THEN IF ~TruthyString(params, "recipient") /\ ~TruthyString(params, "recipientName")
         THEN <<"Who do you want to send to?">>
         ELSE IF ~TruthyNumber(params, "amount")
         THEN <<"How much do you want to send?">>
         ELSE Undefined
    ELSE Undefined

\* a clamp that reports the confidence as a percentage
clampConfidencePercent(c) == (IF c < 10 THEN c ELSE 10) * 100

\* line 161: Math.min(confidence, 1)
clampConfidence(c) == IF c < 10 THEN c ELSE 10

\* a refinement whose price branch is not guarded by the action
refineUnguardedPrice(action, st, lower) ==
    IF action = "swap"
    THEN refineSwapSell(refineSwapBuy(refineSwapFor(st, lower), lower), lower)
    ELSE IF action = "transfer" THEN refineTransfer(st, lower)
    ELSE refinePrice(st, split(lower))

\* the refinement of the action found, lines 90-143
refine(action, st, lower) ==
    IF action = "swap"
    THEN Only({refineSwapSell(c, lower) :
               c \in {refineSwapBuy(b, lower) : b \in {refineSwapFor(st, lower)}}})
    ELSE IF action = "transfer" THEN refineTransfer(st, lower)
    ELSE IF action = "price" THEN refinePrice(st, split(lower))
    ELSE st

\* lines 159-165
newIntent(t, action, st) ==
    [action |-> action,
     confidence |-> clampConfidence(st.confidence),
     params |-> st.params,
     originalText |-> t,
     clarificationNeeded |-> clarificationFor(action, st.params)]

\* lines 78-165, with the action det found in the lower-cased text
parseDetected(t, lower, det) ==
    Only({newIntent(t, det.action, st) :
          st \in {refine(det.action, st0, lower) :
                  st0 \in {[params |-> extractAmount(lower),
                            confidence |-> det.confidence]}}})

\* lines 57-165, with the lower-cased, trimmed text
parseLower(t, lower) ==
    Only({parseDetected(t, lower, det) : det \in {detectAction(lower)}})

parseIntent(t) == Only({parseLower(t, lower) : lower \in {trim(toLowerCase(t))}})

\* a completeness test with a strict threshold
isIntentCompleteStrict(i) ==
    i.clarificationNeeded \in {Undefined, Null, <<>>} /\ i.confidence > 7

\* lines 221-223
isIntentComplete(i) ==
    i.clarificationNeeded \in {Undefined, Null, <<>>} /\ i.confidence >= 7

\* obj[dst] = src[k], the key left out when src[k] is undefined
CopyKey(obj, dst, src, k) == IF k \in DOMAIN src THEN Put(obj, dst, src[k]) ELSE obj

\* lines 228-255; a null result is NullObject
intentToParams(i) ==
    IF ~isIntentComplete(i) THEN NullObject
    ELSE IF i.action = "swap"
    THEN Put(CopyKey(CopyKey(CopyKey(EmptyObject, "inputMint", i.params, "inputToken"),
                             "outputMint", i.params, "outputToken"),
                     "amount", i.params, "amount"),
             "slippageBps", 50)
    ELSE IF i.action = "transfer"
    THEN Put(CopyKey(CopyKey(EmptyObject, "recipient", i.params, "recipient"),
                     "amount", i.params, "amount"),
             "token", IF TruthyString(i.params, "inputToken")
                      THEN i.params.inputToken
                      ELSE <<"S","O","L">>)
    ELSE IF i.action = "price"
    THEN CopyKey(EmptyObject, "token", i.params, "token")
    ELSE i.params

-----------------------------------------------------------------------------
(* The texts handed to parseIntent.                                        *)

DocSwap ==
    <<"s","w","a","p"," ","1",".","5"," ","S","O","L"," ","f","o","r"," ","U","S","D","C">>
DocBuy ==
    <<"b","u","y"," ","1","0","0"," ","B","O","N","K"," ","w","i","t","h"," ","0",".","5"," ","S","O","L">>
DocSell ==
    <<"s","e","l","l"," ","5","0"," ","J","U","P"," ","f","o","r"," ","U","S","D","C">>
DocPrice ==
    <<"w","h","a","t","'","s"," ","t","h","e"," ","p","r","i","c","e"," ","o","f"," ","S","O","L","?">>
DocBalance ==
    <<"c","h","e","c","k"," ","m","y"," ","b","a","l","a","n","c","e">>
DocStake ==
    <<"s","t","a","k","e"," ","1","0"," ","S","O","L">>

\* base58 addresses: the one of the demo (44 characters), one of 32 characters
\* without upper-case letters, and two whose lower-cased form contains "l"
AddrDemo ==
    <<"7","x","K","X","t","g","2","C","W","8","7","d","9","7","T","X","J","S","D","p","b","D",
      "5","j","B","k","h","e","T","q","A","8","3","T","Z","R","u","J","o","s","g","A","s","U">>
AddrLower ==
    <<"7","x","k","x","t","g","2","c","w","8","7","d","9","7","t","x","j","s","d","p","b","d",
      "5","j","b","k","h","e","t","q","a","8">>
AddrSplit ==
    <<"7","x","K","X","t","g","2","C","W","8","7","d","9","7","T","X","L","S","D","p","b","D",
      "5","j","B","k","h","e","T","q","A","8","3","T","Z","R","u","J","o","s","g","A","s","U">>
AddrCut ==
    <<"9","W","z","D","X","w","B","b","m","k","g","8","Z","T","b","N","M","q","U","x","v","Q",
      "R","A","y","r","Z","z","D","s","G","Y","d","L","V","L","9","z","Y","t","A","W","W","M">>
Addresses == {AddrDemo, AddrLower, AddrSplit, AddrCut}

\* the words of a sentence joined by single spaces, absent (empty) words skipped
RECURSIVE JoinWords(_)
JoinWords(ws) ==
    IF ws = <<>> THEN <<>>
    ELSE LET rest == JoinWords(Tail(ws))
         IN  IF Head(ws) = <<>> THEN rest
             ELSE IF rest = <<>> THEN Head(ws)
             ELSE Head(ws) \o <<" ">> \o rest

\* "send 2 SOL to <address>"
SendText(addr) ==
    JoinWords(<< <<"s","e","n","d">>, <<"2">>, <<"S","O","L">>, <<"t","o">>, addr >>)
DocSend == SendText(AddrDemo)

Documented == {DocSwap, DocBuy, DocSell, DocSend, DocPrice, DocBalance, DocStake}

\* "swap n A for B" over the alias table; each amount with the number it writes
SwapAmounts == {[str |-> <<"1",".","5">>, value |-> 1500],
                [str |-> <<"2">>, value |-> 2000]}
AliasNames == {TOKEN_ALIASES[a][1] : a \in DOMAIN TOKEN_ALIASES}
canonical(name) ==
    TOKEN_ALIASES[CHOOSE a \in DOMAIN TOKEN_ALIASES : TOKEN_ALIASES[a][1] = name][2]
SwapText(n, A, B) ==
    JoinWords(<< <<"s","w","a","p">>, n, A, <<"f","o","r">>, B >>)
SwapTexts == {SwapText(n.str, A, B) : n \in SwapAmounts, A \in AliasNames, B \in AliasNames}

\* verb, amount, token, preposition, object; each part after the verb may be absent
CmdVerbs == {<<"s","w","a","p">>, <<"b","u","y">>, <<"s","e","l","l">>, <<"s","e","n","d">>,
             <<"s","t","a","k","e">>, <<"p","r","i","c","e">>, <<"b","a","l","a","n","c","e">>,
             <<"h","e","l","l","o">>}
CmdAmounts == {<<>>, <<"5">>, <<"0">>, <<"1",".","5">>}
CmdTokens == {<<>>, <<"s","o","l">>, <<"a">>}
CmdPreps == {<<>>, <<"t","o">>, <<"f","o","r">>, <<"w","i","t","h">>}
CmdObjects == {<<>>, <<"u","s","d","c">>, <<"a">>, <<"b","o","b">>, <<"@","b","o","b">>,
               <<"5"," ","s","o","l">>, <<"5">>} \cup Addresses
CommandTexts ==
    {JoinWords(<<v, n, k, p, o>>) :
        v \in CmdVerbs, n \in CmdAmounts, k \in CmdTokens, p \in CmdPreps, o \in CmdObjects}

\* any sequence of at most MaxWords words of a small vocabulary
MaxWords == 3
Vocabulary == << <<"s","w","a","p">>, <<"s","e","n","d">>, <<"p","r","i","c","e">>,
                 <<"s","t","a","k","e">>, <<"5">>, <<"s","o","l">>, <<"t","o">>,
                 <<"h","e","l","l","o">> >>
FreeTexts ==
    {JoinWords([i \in DOMAIN f |-> Vocabulary[f[i]]]) :
        f \in UNION {[1..m -> DOMAIN Vocabulary] : m \in 1..MaxWords}}

\* sentences with keywords of several families
SeveralFamilies ==
    {JoinWords(<< <<"c","h","e","c","k">>, <<"p","r","i","c","e">> >>),
     JoinWords(<< <<"s","t","a","k","e">>, <<"a","n","d">>, <<"s","h","o","w">>, <<"b","a","l","a","n","c","e">> >>),
     JoinWords(<< <<"p","a","y">>, <<"t","h","e">>, <<"d","e","p","o","s","i","t">>, <<"c","o","s","t">> >>),
     JoinWords(<< <<"h","o","w"," ","m","u","c","h">>, <<"i","s">>, <<"s","o","l">>, <<"w","o","r","t","h">> >>)}

Texts == Documented \cup SwapTexts \cup CommandTexts \cup FreeTexts \cup SeveralFamilies

-----------------------------------------------------------------------------
(* The parser under its callers: a text is parsed (or a caller hands in an  *)
(* intent of its own), then checked for completeness and converted.         *)

NoNormalization == [input |-> <<>>, once |-> Undefined, twice |-> Undefined, pc |-> "idle"]

\* lines 54-55: let action = 'unknown'; let confidence = 0
NoDetection == [action |-> "unknown", confidence |-> 0]

NoIntent ==
    [action |-> "unknown", confidence |-> 0, params |-> EmptyObject,
     originalText |-> <<>>, clarificationNeeded |-> Undefined]

Prompts == {<<"Which token do you want to swap FROM?">>,
            <<"Which token do you want to swap TO?">>,
            <<"How much do you want to swap?">>,
            <<"Who do you want to send to?">>,
            <<"How much do you want to send?">>}

\* intents a caller builds by hand: any action, any confidence in tenths,
\* with or without a prompt
CallerParams == {EmptyObject,
                 [amount |-> 1500, inputToken |-> <<"S","O","L">>,
                  outputToken |-> <<"U","S","D","C">>]}
CallerIntents ==
    [action : Actions, confidence : 0..10, params : CallerParams,
     originalText : {DocSwap}, clarificationNeeded : {Undefined} \cup Prompts]

\* a promise that has not settled, and the values its fields hold until then
NoReport == [overallSafe |-> FALSE, checks |-> <<>>, recommendation |-> <<>>]
NoSimulation ==
    [success |-> FALSE, logs |-> <<>>, unitsConsumed |-> 0, fee |-> 0,
     balanceChanges |-> <<>>, error |-> Undefined, warnings |-> <<>>]
NoSwapParams ==
    [inputAmount |-> 0, inputToken |-> <<>>, walletBalance |-> 0, slippageBps |-> 0]

\* no simulate call has resolved
NoResponse == [pending |-> TRUE]
\* a simulateTransaction call that has not been made: its arguments, the
\* blockhash it fetched, the transaction as the simulate call received it,
\* the response, the message caught and the result
NoRequest == [kind |-> "none", recentBlockhash |-> "none", feePayer |-> "none"]
IdleCall ==
    [pc |-> "idle", tx |-> "none", feePayer |-> "none", blockhash |-> "none",
     request |-> NoRequest, response |-> NoResponse, caught |-> Undefined,
     result |-> NoSimulation]
Callers == {1, 2}
TxObjects == {"tx1", "tx2"}

IdleConc ==
    /\ ccCalls = [c \in Callers |-> IdleCall]
    /\ ccTx = [o \in TxObjects |-> NoRequest]

\* a DriftModule as its constructor leaves it (lines 156-159), no call made
NoOperation == [name |-> "none", outcome |-> "none", at |-> 0]
IdleDrift ==
    /\ drWallet = FALSE
    /\ drClients = <<>>
    /\ drClient = 0
    /\ drIsInitialized = FALSE
    /\ drSubscribing = {}
    /\ drUnsubscribing = {}
    /\ drLog = <<>>
    /\ drOp = NoOperation

IdleSafety ==
    /\ sfCall = [fn |-> "none", walletAddress |-> <<>>, rpcUrl |-> <<>>,
                 operation |-> "none", params |-> NoSwapParams]
    /\ sfLookup = [status |-> "none", lamports |-> 0, message |-> Undefined]
    /\ sfResult = [status |-> "pending", report |-> NoReport, error |-> Undefined]
    /\ sfPc = "idle"
    /\ sfQuick = [safe |-> FALSE, reason |-> <<>>]

IdleSim ==
    /\ smCall = [fn |-> "none", rpcUrl |-> <<>>, feePayer |-> "none"]
    /\ smTx = [kind |-> "none", recentBlockhash |-> "none", feePayer |-> "none"]
    /\ smFailure = [step |-> "none", message |-> Undefined]
    /\ smResult = [status |-> "pending", value |-> NoSimulation, error |-> Undefined]
    /\ smPc = "idle"
    /\ smRemote = <<>>
    /\ smAnswer = [status |-> "pending"]
    /\ smResponse = NoResponse

IdleNlp ==
    /\ text = <<>>
    /\ intent = NoIntent
    /\ origin = "none"
    /\ complete = FALSE
    /\ execParams = NullObject
    /\ nlpPc = "idle"
    /\ calls = <<>>
    /\ norm = NoNormalization
    /\ detected = NoDetection

InitNlp ==
    /\ text \in Texts
    /\ intent = NoIntent
    /\ origin = "none"
    /\ complete = FALSE
    /\ execParams = NullObject
    /\ nlpPc = "input"
    /\ calls = <<>>
    /\ norm = NoNormalization
    /\ detected = NoDetection
    /\ IdleSafety
    /\ IdleSim /\ IdleConc /\ IdleDrift

ParseIntentCall ==
    /\ nlpPc = "input"
    /\ intent' = parseIntent(text)
    /\ detected' = detectAction(trim(toLowerCase(text)))
    /\ origin' = "parseIntent"
    /\ nlpPc' = "parsed"
    /\ UNCHANGED <<text, complete, execParams>>
    /\ UNCHANGED <<calls, norm, safetyVars, simVars,
                   concVars, driftVars>>

CallerIntentCall ==
    /\ nlpPc = "input"
    /\ text = DocSwap
    /\ intent' \in CallerIntents
    /\ origin' = "caller"
    /\ nlpPc' = "parsed"
    /\ UNCHANGED <<text, complete, execParams>>
    /\ UNCHANGED <<detected, calls, norm, safetyVars, simVars,
                   concVars, driftVars>>

IsIntentCompleteCall ==
    /\ nlpPc = "parsed"
    /\ complete' = isIntentComplete(intent)
    /\ nlpPc' = "checked"
    /\ UNCHANGED <<text, intent, origin, execParams>>
    /\ UNCHANGED <<detected, calls, norm, safetyVars, simVars,
                   concVars, driftVars>>

IntentToParamsCall ==
    /\ nlpPc = "checked"
    /\ execParams' = intentToParams(intent)
    /\ nlpPc' = "done"
    /\ UNCHANGED <<text, intent, origin, complete>>
    /\ UNCHANGED <<detected, calls, norm, safetyVars, simVars,
                   concVars, driftVars>>

NextNlp ==
    \/ ParseIntentCall
    \/ CallerIntentCall
    \/ IsIntentCompleteCall
    \/ IntentToParamsCall

SpecNlp == InitNlp /\ [][NextNlp]_vars

-----------------------------------------------------------------------------
(* Properties of the parser.                                               *)

Parsed == nlpPc # "input" /\ origin = "parseIntent"
Converted == nlpPc = "done" /\ origin = "parseIntent"

\* obj[k], Undefined when the key is absent
Field(obj, k) == IF k \in DOMAIN obj THEN obj[k] ELSE Undefined
HasAmount(obj, v) == "amount" \in DOMAIN obj /\ obj.amount = v
HasDigit(s) == \E i \in 1..Len(s) : s[i] \in Digits

\* C4 (as claimed): an intent of action 'unknown' has empty params and no
\* clarification prompt.
C4_UnknownHasEmptyParams ==
    (Parsed /\ intent.action = "unknown")
        => (DOMAIN intent.params = {} /\ intent.clarificationNeeded = Undefined)

\* C4 (amended): an intent of action 'unknown' has no clarification prompt and
\* its params hold only what the generic extraction found: nothing when the
\* text has no digit, otherwise the amount and, if the word after the number
\* normalizes, the input token.
C4_UnknownHasGenericParamsOnly ==
    (Parsed /\ intent.action = "unknown")
        => /\ intent.clarificationNeeded = Undefined
           /\ DOMAIN intent.params \subseteq {"amount", "inputToken"}
           /\ ("amount" \in DOMAIN intent.params) <=> HasDigit(text)
           /\ ("inputToken" \in DOMAIN intent.params) => HasDigit(text)

C4_Witness ==
    /\ Parsed
    /\ intent.action = "unknown"
    /\ DOMAIN intent.params = {"amount", "inputToken"}

\* C5: a non-null intentToParams result for a parsed swap or transfer has every
\* field of its shape defined and non-null.
C5_ExecutionReady ==
    (Converted /\ execParams # NullObject)
        => /\ (intent.action = "swap") =>
                  /\ DOMAIN execParams = {"inputMint", "outputMint", "amount", "slippageBps"}
                  /\ execParams.inputMint # Null
                  /\ execParams.outputMint # Null
                  /\ execParams.slippageBps = 50
           /\ (intent.action = "transfer") =>
                  /\ DOMAIN execParams = {"recipient", "amount", "token"}
                  /\ execParams.recipient # Null
                  /\ execParams.token # Null

\* C6: "swap n A for B" parses to a swap of n canonical(A) into canonical(B),
\* with confidence at least 0.9 and no clarification prompt.
C6_SwapTemplate ==
    (Parsed /\ text \in SwapTexts)
        => \A n \in SwapAmounts, A \in AliasNames, B \in AliasNames :
               (text = SwapText(n.str, A, B))
                   => /\ intent.action = "swap"
                      /\ intent.params = [amount |-> n.value,
                                          inputToken |-> canonical(A),
                                          outputToken |-> canonical(B)]
                      /\ intent.confidence >= 9
                      /\ intent.clarificationNeeded = Undefined

\* C7: each documented pattern parses to its action with the tokens and
\* amounts it names, and is complete.
C7_DocumentedPatterns ==
    Converted
        => /\ (text = DocSwap) =>
                  /\ intent.action = "swap" /\ complete
                  /\ HasAmount(intent.params, 1500)
                  /\ Field(intent.params, "inputToken") = <<"S","O","L">>
                  /\ Field(intent.params, "outputToken") = <<"U","S","D","C">>
           /\ (text = DocBuy) =>
                  /\ intent.action = "swap" /\ complete
                  /\ HasAmount(intent.params, 500)
                  /\ Field(intent.params, "inputToken") = <<"S","O","L">>
                  /\ Field(intent.params, "outputToken") = <<"B","O","N","K">>
           /\ (text = DocSell) =>
                  /\ intent.action = "swap" /\ complete
                  /\ HasAmount(intent.params, 50000)
                  /\ Field(intent.params, "inputToken") = <<"J","U","P">>
                  /\ Field(intent.params, "outputToken") = <<"U","S","D","C">>
           /\ (text = DocSend) =>
                  /\ intent.action = "transfer" /\ complete
                  /\ HasAmount(intent.params, 2000)
                  /\ Field(intent.params, "inputToken") = <<"S","O","L">>
           /\ (text = DocPrice) =>
                  /\ intent.action = "price" /\ complete
                  /\ Field(intent.params, "token") = <<"S","O","L">>
           /\ (text = DocBalance) =>
                  /\ intent.action = "balance" /\ complete

\* C8: in a transfer whose text contains a base58 address of 32 to 44
\* characters, recipient is that address as written and recipientName is unset.
C8_RecipientAsWritten ==
    \A addr \in Addresses :
        (Parsed /\ intent.action = "transfer" /\ includes(text, addr))
            => /\ Field(intent.params, "recipient") = addr
               /\ "recipientName" \notin DOMAIN intent.params

\* C9: the confidence of a parsed intent lies in [0,1] (0..10 tenths).
C9_ConfidenceInRange ==
    Parsed => (intent.confidence >= 0 /\ intent.confidence <= 10)

C9_Witness ==
    /\ Parsed
    /\ intent.action = "transfer"
    /\ "recipient" \in DOMAIN intent.params
    /\ intent.confidence = 9

\* C10: isIntentComplete is true exactly when no clarification is needed and
\* the confidence is at least 0.7, and intentToParams is null exactly when
\* isIntentComplete is false.
C10_CompleteIff ==
    (nlpPc = "done")
        => /\ complete <=> (intent.clarificationNeeded = Undefined /\ intent.confidence >= 7)
           /\ (execParams = NullObject) <=> ~complete

C10_Witness ==
    /\ Converted
    /\ intent.action = "stake"
    /\ intent.confidence = 7
    /\ complete
    /\ execParams # NullObject


\* the keyword families in their order of priority, each with its base
\* confidence in tenths
Families ==
    << [action |-> "swap", keywords |-> SWAP_KEYWORDS, confidence |-> 8],
       [action |-> "transfer", keywords |-> TRANSFER_KEYWORDS, confidence |-> 8],
       [action |-> "stake", keywords |-> STAKE_KEYWORDS, confidence |-> 7],
       [action |-> "balance", keywords |-> BALANCE_KEYWORDS, confidence |-> 9],
       [action |-> "price", keywords |-> PRICE_KEYWORDS, confidence |-> 9] >>
Lowered == trim(toLowerCase(text))
Matching == {f \in DOMAIN Families : someIncluded(Families[f].keywords, Lowered)}

\* C21: parseIntent assigns exactly one action by the priority swap >
\* transfer > stake > balance > price > unknown: the action is that of the
\* first family one of whose keywords the text contains, with the base
\* confidence of that family (0.8, 0.8, 0.7, 0.9, 0.9), and unknown with
\* confidence 0 when no family matches.
C21_PriorityOfFamilies ==
    Parsed =>
        /\ intent.action = detected.action
        /\ IF Matching = {}
           THEN detected = [action |-> "unknown", confidence |-> 0]
           ELSE /\ detected.action = Families[Min(Matching)].action
                /\ detected.confidence = Families[Min(Matching)].confidence

C21_Witness ==
    /\ Parsed
    /\ {1, 2, 5} \subseteq Matching
    /\ intent.action = "swap"
    /\ detected.confidence = 8


\* the requirements of an action in the order they are asked for: whether
\* each one fails on the params of the intent, and the prompt it has
Requirements ==
    IF intent.action = "swap"
    THEN << [fails |-> ~TruthyString(intent.params, "inputToken"),
             prompt |-> <<"Which token do you want to swap FROM?">>],
            [fails |-> ~TruthyString(intent.params, "outputToken"),
             prompt |-> <<"Which token do you want to swap TO?">>],
            [fails |-> ~TruthyNumber(intent.params, "amount"),
             prompt |-> <<"How much do you want to swap?">>] >>
    ELSE IF intent.action = "transfer"
    THEN << [fails |-> /\ ~TruthyString(intent.params, "recipient")
                       /\ ~TruthyString(intent.params, "recipientName"),
             prompt |-> <<"Who do you want to send to?">>],
            [fails |-> ~TruthyNumber(intent.params, "amount"),
             prompt |-> <<"How much do you want to send?">>] >>
    ELSE <<>>
Failing == {r \in DOMAIN Requirements : Requirements[r].fails}

\* C22: for a swap and for a transfer clarificationNeeded is the prompt of
\* the first failing requirement (swap: inputToken, outputToken, amount;
\* transfer: recipient or recipientName, amount), and it is unset exactly
\* when every requirement of the action holds.
C22_FirstFailingRequirement ==
    (Parsed /\ intent.action \in {"swap", "transfer"}) =>
        /\ (Failing = {}) <=> (intent.clarificationNeeded = Undefined)
        /\ (Failing # {}) =>
               intent.clarificationNeeded = Requirements[Min(Failing)].prompt

C22_Witness ==
    /\ Parsed
    /\ intent.action = "swap"
    /\ Failing = {2, 3}
    /\ intent.clarificationNeeded = <<"Which token do you want to swap TO?">>

C22_WitnessTransfer ==
    /\ Parsed
    /\ intent.action = "transfer"
    /\ Failing = {1, 2}
    /\ intent.clarificationNeeded = <<"Who do you want to send to?">>


\* C23: parseIntent never sets clarificationNeeded for a stake, balance or
\* price intent, so every such intent is complete and intentToParams returns
\* its params (the params object for a stake or a balance, the token alone
\* for a price), never null, even when no amount or token was extracted.
C23_NoClarificationForOthers ==
    (Parsed /\ intent.action \in {"stake", "balance", "price"}) =>
        /\ intent.clarificationNeeded = Undefined
        /\ isIntentComplete(intent)
        /\ (nlpPc \in {"checked", "done"}) => complete
        /\ (nlpPc = "done") =>
               /\ execParams # NullObject
               /\ (intent.action # "price") => (execParams = intent.params)
               /\ (intent.action = "price") =>
                      (execParams = CopyKey(EmptyObject, "token", intent.params, "token"))

C23_Witness ==
    /\ Converted
    /\ intent.action = "stake"
    /\ "amount" \notin DOMAIN intent.params
    /\ complete
    /\ execParams = EmptyObject

C23_WitnessPrice ==
    /\ Converted
    /\ intent.action = "price"
    /\ "amount" \notin DOMAIN intent.params
    /\ complete
    /\ DOMAIN execParams = {"token"}


\* C24: in every intent returned by parseIntent a key is present in params
\* only when its value was extracted: no token or recipient key is present
\* with a null or undefined value (amount is always a parsed number).
C24_NoNullValue ==
    Parsed =>
        \A k \in DOMAIN intent.params \ {"amount"} :
            intent.params[k] \notin {Null, Undefined}

-----------------------------------------------------------------------------
(* The parser called again and again: every call builds its params object  *)
(* and its patterns anew (lines 78-128), and the tables of lines 16-48 are *)
(* never written.                                                          *)

MaxCalls == 3
RepeatTexts == {DocSwap, DocSell, DocSend, DocPrice, DocStake,
                <<"5">>, <<"h","e","l","l","o">>, <<"s","e","n","d">>}

InitNlpCalls == IdleNlp /\ IdleSafety /\ IdleSim /\ IdleConc /\ IdleDrift

ParseIntentAgain ==
    /\ Len(calls) < MaxCalls
    /\ \E t \in RepeatTexts :
           /\ text' = t
           /\ intent' = parseIntent(t)
           /\ detected' = detectAction(trim(toLowerCase(t)))
           /\ calls' = Append(calls, [text |-> t, result |-> intent'])
    /\ origin' = "parseIntent"
    /\ UNCHANGED <<complete, execParams, nlpPc, norm, safetyVars, simVars,
                   concVars, driftVars>>

NextNlpCalls == ParseIntentAgain

SpecNlpCalls == InitNlpCalls /\ [][NextNlpCalls]_vars

-----------------------------------------------------------------------------
(* normalizeToken applied to a word, and again to what it returned.        *)

MaxTokenLen == 3
TokenAlphabet == <<"a", "B", "1", "-">>
ShortWords ==
    {[i \in DOMAIN f |-> TokenAlphabet[f[i]]] :
        f \in UNION {[1..m -> DOMAIN TokenAlphabet] : m \in 0..MaxTokenLen}}
TokenInputs ==
    AliasNames \cup {TOKEN_ALIASES[a][2] : a \in DOMAIN TOKEN_ALIASES}
        \cup ShortWords
        \cup {<<"M","S","O","L">>, <<"M","a","r","i","n","a","d","e">>, <<"w","h","a","t","'","s">>, <<"a","b","c","d","e","f","g","h","i","j","k">>, <<"c","o","n","s","t","r","u","c","t","o","r">>, <<"C","o","n","s","t","r","u","c","t","o","r">>}

InitNormalize ==
    /\ IdleSafety /\ IdleSim /\ IdleConc /\ IdleDrift
    /\ text = <<>> /\ intent = NoIntent /\ origin = "none" /\ complete = FALSE
    /\ execParams = NullObject /\ nlpPc = "idle" /\ calls = <<>>
    /\ detected = NoDetection
    /\ norm \in [input : TokenInputs, once : {Undefined}, twice : {Undefined}, pc : {"input"}]

NormalizeTokenCall ==
    /\ norm.pc = "input"
    /\ norm' = [norm EXCEPT !.once = normalizeToken(norm.input), !.pc = "once"]
    /\ UNCHANGED <<text, intent, origin, complete, execParams, nlpPc, calls,
                   detected, safetyVars, simVars,
                   concVars, driftVars>>

\* the result, when it is not null, handed to normalizeToken again
NormalizeTokenAgain ==
    /\ norm.pc = "once"
    /\ norm.once # Null
    /\ norm' = [norm EXCEPT !.twice = normalizeToken(norm.once), !.pc = "twice"]
    /\ UNCHANGED <<text, intent, origin, complete, execParams, nlpPc, calls,
                   detected, safetyVars, simVars,
                   concVars, driftVars>>

NextNormalize == NormalizeTokenCall \/ NormalizeTokenAgain

SpecNormalize == InitNormalize /\ [][NextNormalize]_vars

\* C12: normalizeToken is idempotent once it has produced a symbol: whenever
\* normalizeToken(x) is not null, normalizeToken(normalizeToken(x)) is
\* normalizeToken(x), alias results such as mSOL, bSOL and JTO included.
C12_Idempotent ==
    (norm.pc = "twice") => (norm.twice = norm.once)

-----------------------------------------------------------------------------
(* Numbers as JavaScript prints them.  A printed number is a sequence of   *)
(* one-character strings; a message is the concatenation of its literal    *)
(* pieces and the printed numbers.                                         *)

RECURSIVE NumberToString(_)
NumberToString(n) ==
    IF n < 10 THEN <<DigitSeq[n + 1]>>
    ELSE NumberToString(n \div 10) \o <<DigitSeq[(n % 10) + 1]>>

RECURSIVE Pow10(_)
Pow10(k) == IF k = 0 THEN 1 ELSE 10 * Pow10(k - 1)

PadStart(ds, width) == [i \in 1..(width - Len(ds)) |-> "0"] \o ds

\* the digits of q / 10^d with exactly d fraction digits, d > 0
FixedDigits(q, d) ==
    NumberToString(q \div Pow10(d)) \o <<".">> \o PadStart(NumberToString(q % Pow10(d)), d)

\* (n / 10^scale).toFixed(d) for 0 < d <= scale, rounding half up
toFixed(n, scale, d) ==
    FixedDigits((n + (Pow10(scale - d) \div 2)) \div Pow10(scale - d), d)

\* String(n / 100): no trailing zeros, no point for an integer
HundredthsToString(n) ==
    IF n % 100 = 0 THEN NumberToString(n \div 100)
    ELSE IF n % 10 = 0 THEN NumberToString(n \div 100) \o <<".">> \o NumberToString((n % 100) \div 10)
    ELSE NumberToString(n \div 100) \o <<".">> \o PadStart(NumberToString(n % 100), 2)

-----------------------------------------------------------------------------
(* safety.ts: checkSwapSafety.  Token amounts are integers counting        *)
(* ten-thousandths of a token; the comparisons are those of the code on    *)
(* the exact quotients (the rounding of a double division is not           *)
(* modelled).                                                              *)

DEFAULT_RPC == <<"h","t","t","p","s",":","/","/","a","p","i",".","m","a","i","n","n","e","t","-","b","e","t","a",".","s","o","l","a","n","a",".","c","o","m">>

\* const estimatedFee = 0.001, in ten-thousandths of a SOL
estimatedFee == 10

SafetyCheck(passed, level, message, details) ==
    [passed |-> passed, level |-> level, message |-> message, details |-> details]
\* a percentage that a division by zero leaves below every threshold
PercentageAboveFinite(p, threshold) ==
    p.walletBalance # 0 /\ p.inputAmount * 100 > threshold * p.walletBalance

\* (inputAmount / walletBalance) * 100 > threshold; a division by zero gives
\* Infinity for a positive amount and NaN, which compares false, for 0 / 0
PercentageAbove(p, threshold) ==
    IF p.walletBalance = 0 THEN p.inputAmount > 0
    ELSE p.inputAmount * 100 > threshold * p.walletBalance

\* percentageOfBalance.toFixed(1)
PercentageFixed(p) ==
    IF p.walletBalance = 0
    THEN IF p.inputAmount > 0 THEN <<"Infinity">> ELSE <<"NaN">>
    ELSE FixedDigits((p.inputAmount * 2000 + p.walletBalance) \div (2 * p.walletBalance), 1)

balanceMessage(p) == <<"Using ">> \o PercentageFixed(p) \o <<"% of wallet balance">>

\* a balance check whose thresholds are inclusive
balanceCheckInclusive(p) ==
    IF p.walletBalance # 0 /\ p.inputAmount * 100 >= 90 * p.walletBalance
    THEN SafetyCheck(FALSE, "danger", balanceMessage(p),
                     <<"Consider keeping reserves for fees and emergencies">>)
    ELSE IF p.walletBalance # 0 /\ p.inputAmount * 100 >= 50 * p.walletBalance
    THEN SafetyCheck(TRUE, "warning", balanceMessage(p),
                     <<"Large position relative to portfolio">>)
    ELSE SafetyCheck(TRUE, "safe", balanceMessage(p), Undefined)

\* Check 1
balanceCheck(p) ==
    IF PercentageAbove(p, 90)
    THEN SafetyCheck(FALSE, "danger", balanceMessage(p),
                     <<"Consider keeping reserves for fees and emergencies">>)
    ELSE IF PercentageAbove(p, 50)
    THEN SafetyCheck(TRUE, "warning", balanceMessage(p),
                     <<"Large position relative to portfolio">>)
    ELSE SafetyCheck(TRUE, "safe", balanceMessage(p), Undefined)

slippageMessage(p) ==
    <<"Slippage tolerance is ">> \o HundredthsToString(p.slippageBps) \o <<"%">>

\* a slippage check whose thresholds are inclusive
slippageCheckInclusive(p) ==
    IF p.slippageBps >= 500
    THEN SafetyCheck(FALSE, "danger", slippageMessage(p),
                     <<"High slippage may result in significant value loss">>)
    ELSE IF p.slippageBps >= 100
    THEN SafetyCheck(TRUE, "warning", slippageMessage(p),
                     <<"Consider lower slippage for better execution">>)
    ELSE SafetyCheck(TRUE, "safe", slippageMessage(p), Undefined)

\* Check 2
slippageCheck(p) ==
    IF p.slippageBps > 500
    THEN SafetyCheck(FALSE, "danger", slippageMessage(p),
                     <<"High slippage may result in significant value loss">>)
    ELSE IF p.slippageBps > 100
    THEN SafetyCheck(TRUE, "warning", slippageMessage(p),
                     <<"Consider lower slippage for better execution">>)
    ELSE SafetyCheck(TRUE, "safe", slippageMessage(p), Undefined)

\* a fee-reserve check that accepts any spelling of the token
feeReserveChecksAnyCase(p) ==
    IF toUpperCase(p.inputToken) = <<"S","O","L">>
           /\ p.walletBalance - p.inputAmount < estimatedFee
    THEN <<SafetyCheck(FALSE, "blocked",
                       <<"Insufficient SOL remaining for transaction fees">>,
                       <<"Need at least ", "0.001", " SOL for fees after swap">>)>>
    ELSE <<>>

\* Check 3: the checks it pushes
feeReserveChecks(p) ==
    IF p.inputToken = <<"S","O","L">> /\ p.walletBalance - p.inputAmount < estimatedFee
    THEN <<SafetyCheck(FALSE, "blocked",
                       <<"Insufficient SOL remaining for transaction fees">>,
                       <<"Need at least ", "0.001", " SOL for fees after swap">>)>>
    ELSE <<>>

\* checks.some(c => c.level === level)
some(checks, level) == \E i \in DOMAIN checks : checks[i].level = level

\* a verdict that forgets the blocked checks
swapVerdictDangerOnly(checks) ==
    IF some(checks, "danger")
    THEN [overallSafe |-> FALSE,
          recommendation |->
              <<"NOT RECOMMENDED", ": High-risk transaction, proceed with extreme caution">>]
    ELSE IF some(checks, "warning")
    THEN [overallSafe |-> TRUE,
          recommendation |->
              <<"CAUTION", ": Transaction has some risks, review before proceeding">>]
    ELSE [overallSafe |-> TRUE,
          recommendation |-> <<"SAFE", ": Transaction appears safe to execute">>]

\* a verdict that looks at the danger checks before the blocked ones
swapVerdictDangerFirst(checks) ==
    IF some(checks, "danger")
    THEN [overallSafe |-> FALSE,
          recommendation |->
              <<"NOT RECOMMENDED", ": High-risk transaction, proceed with extreme caution">>]
    ELSE IF some(checks, "blocked")
    THEN [overallSafe |-> FALSE,
          recommendation |->
              <<"BLOCKED", ": Transaction cannot proceed due to critical issues">>]
    ELSE IF some(checks, "warning")
    THEN [overallSafe |-> TRUE,
          recommendation |->
              <<"CAUTION", ": Transaction has some risks, review before proceeding">>]
    ELSE [overallSafe |-> TRUE,
          recommendation |-> <<"SAFE", ": Transaction appears safe to execute">>]

\* Generate recommendation
swapVerdict(checks) ==
    IF some(checks, "blocked")
    THEN [overallSafe |-> FALSE,
          recommendation |->
              <<"BLOCKED", ": Transaction cannot proceed due to critical issues">>]
    ELSE IF some(checks, "danger")
    THEN [overallSafe |-> FALSE,
          recommendation |->
              <<"NOT RECOMMENDED", ": High-risk transaction, proceed with extreme caution">>]
    ELSE IF some(checks, "warning")
    THEN [overallSafe |-> TRUE,
          recommendation |->
              <<"CAUTION", ": Transaction has some risks, review before proceeding">>]
    ELSE [overallSafe |-> TRUE,
          recommendation |-> <<"SAFE", ": Transaction appears safe to execute">>]

SafetyReport(verdict, checks) ==
    [overallSafe |-> verdict.overallSafe, checks |-> checks,
     recommendation |-> verdict.recommendation]

swapChecks(p) == <<balanceCheck(p), slippageCheck(p)>> \o feeReserveChecks(p)

checkSwapSafety(p) ==
    Only({SafetyReport(swapVerdict(checks), checks) : checks \in {swapChecks(p)}})

-----------------------------------------------------------------------------
(* safety.ts: checkWalletHealth and preflightCheck.  A balance is an        *)
(* integer number of lamports (1 SOL = 10^9 lamports).                      *)

\* new Connection(rpcUrl, 'confirmed') of @solana/web3.js throws a TypeError
\* unless the endpoint starts with http: or https:
ConnectionAccepts(rpcUrl) ==
    \/ StartsAt(rpcUrl, 1, <<"h","t","t","p",":">>)
    \/ StartsAt(rpcUrl, 1, <<"h","t","t","p","s",":">>)

\* new PublicKey(walletAddress) of @solana/web3.js throws unless the string
\* is the base58 encoding of 32 bytes; such an encoding has 32 to 44
\* characters of the base58 alphabet
PublicKeyAccepts(walletAddress) ==
    /\ Len(walletAddress) \in AddressMinLen..AddressMaxLen
    /\ \A i \in DOMAIN walletAddress : walletAddress[i] \in Base58Chars

EndpointError == <<"Endpoint URL must start with http: or https:">>
PublicKeyError == <<"Invalid public key input">>

\* a balance check whose thresholds are inclusive
balanceChecksInclusive(lamports) ==
    IF lamports <= 1000000
    THEN <<SafetyCheck(FALSE, "blocked",
                       <<"SOL balance (">> \o toFixed(lamports, 9, 6)
                           \o <<") too low for transactions">>,
                       <<"Need at least 0.001 SOL for transaction fees">>)>>
    ELSE IF lamports <= 10000000
    THEN <<SafetyCheck(TRUE, "warning",
                       <<"Low SOL balance: ">> \o toFixed(lamports, 9, 4) \o <<" SOL">>,
                       <<"Consider adding more SOL for multiple transactions">>)>>
    ELSE <<SafetyCheck(TRUE, "safe",
                       <<"SOL balance: ">> \o toFixed(lamports, 9, 4) \o <<" SOL">>,
                       Undefined)>>

\* the try block, when getBalance resolved to lamports
balanceChecks(lamports) ==
    IF lamports < 1000000
    THEN <<SafetyCheck(FALSE, "blocked",
                       <<"SOL balance (">> \o toFixed(lamports, 9, 6)
                           \o <<") too low for transactions">>,
                       <<"Need at least 0.001 SOL for transaction fees">>)>>
    ELSE IF lamports < 10000000
    THEN <<SafetyCheck(TRUE, "warning",
                       <<"Low SOL balance: ">> \o toFixed(lamports, 9, 4) \o <<" SOL">>,
                       <<"Consider adding more SOL for multiple transactions">>)>>
    ELSE <<SafetyCheck(TRUE, "safe",
                       <<"SOL balance: ">> \o toFixed(lamports, 9, 4) \o <<" SOL">>,
                       Undefined)>>

healthVerdict(checks) ==
    IF ~(some(checks, "blocked") \/ some(checks, "danger"))
    THEN [overallSafe |-> TRUE,
          recommendation |-> <<"Wallet is healthy and ready for transactions">>]
    ELSE [overallSafe |-> FALSE,
          recommendation |-> <<"Wallet has issues that need to be resolved">>]

healthReport(lamports) ==
    Only({SafetyReport(healthVerdict(checks), checks) : checks \in {balanceChecks(lamports)}})

\* the catch block
healthFailure(message) ==
    [overallSafe |-> FALSE,
     checks |-> <<SafetyCheck(FALSE, "blocked", <<"Failed to check wallet health">>,
                              message)>>,
     recommendation |-> <<"Unable to verify wallet status">>]

\* what checkWalletHealth returns once getBalance has settled
walletHealth(lookup) ==
    IF lookup.status = "ok" THEN healthReport(lookup.lamports)
    ELSE healthFailure(lookup.message)

preflightVerdict(checks) ==
    [overallSafe |-> ~some(checks, "blocked") /\ ~some(checks, "danger"),
     recommendation |->
         IF some(checks, "blocked") THEN <<"BLOCKED">>
         ELSE IF some(checks, "danger") THEN <<"NOT RECOMMENDED">>
         ELSE <<"SAFE", " TO PROCEED">>]

\* a preflight that evaluates the swap before the wallet
preflightChecksSwapFirst(health, operation, params) ==
    IF operation = "swap" THEN checkSwapSafety(params).checks \o health.checks
    ELSE health.checks

preflightChecks(health, operation, params) ==
    IF operation = "swap" THEN health.checks \o checkSwapSafety(params).checks
    ELSE health.checks

\* preflightCheck from the wallet-health report on
preflightReport(health, operation, params) ==
    Only({SafetyReport(preflightVerdict(checks), checks) :
          checks \in {preflightChecks(health, operation, params)}})

-----------------------------------------------------------------------------
(* The safety evaluator under its callers.                                 *)

SwapAmountsIn == {0, 1, 500, 501, 900, 901, 990, 991, 1000, 1001, 10000, 950000}
WalletBalances == {0, 5, 1000, 1000000}
SlippagesBps == {0, 50, 100, 101, 250, 500, 501, 1000}
SwapTokens == {<<"S","O","L">>, <<"U","S","D","C">>, <<"s","o","l">>}
SwapSafetyInputs ==
    [inputAmount : SwapAmountsIn, inputToken : SwapTokens,
     walletBalance : WalletBalances, slippageBps : SlippagesBps]

\* the params of the preflight calls
PreflightInputs ==
    {p \in SwapSafetyInputs :
        /\ p.inputAmount \in {1, 991, 10000}
        /\ p.walletBalance \in {5, 1000}
        /\ p.slippageBps \in {50, 501}
        /\ p.inputToken \in {<<"S","O","L">>, <<"U","S","D","C">>}}

WalletAddresses == {AddrDemo, <<>>, <<"b","o","b">>, <<"0","x","7","1","C","7","6","5","6","E","C","7","a","b","8","8","b","0","9","8","d","e","f","B","7","5","1","B","7","4","0","1","B","5","f","6","d","8","9","7","6","F">>}
RpcUrls == {DEFAULT_RPC, <<"a","p","i",".","m","a","i","n","n","e","t","-","b","e","t","a",".","s","o","l","a","n","a",".","c","o","m">>}
Operations == {"swap", "transfer", "Swap"}
LamportBalances == {0, 499, 999999, 1000000, 5000000, 9999999, 10000000, 2000000000}
LookupErrors == {<<"failed to get balance of account">>, <<"fetch failed">>}

InitSafety == IdleNlp /\ IdleSafety /\ IdleSim /\ IdleConc /\ IdleDrift

CheckSwapSafetyCall ==
    /\ sfPc = "idle"
    /\ \E p \in SwapSafetyInputs :
           /\ sfCall' = [sfCall EXCEPT !.fn = "checkSwapSafety", !.params = p]
           /\ sfResult' = [sfResult EXCEPT !.status = "resolved",
                                           !.report = checkSwapSafety(p)]
    /\ sfPc' = "done"
    /\ UNCHANGED <<sfLookup, sfQuick, nlpVars, simVars,
                   concVars, driftVars>>

\* lines 129-130, before the try block: an exception of a constructor rejects
\* the promise of the async function
ConstructionError(call) ==
    IF ~ConnectionAccepts(call.rpcUrl) THEN EndpointError
    ELSE IF ~PublicKeyAccepts(call.walletAddress) THEN PublicKeyError
    ELSE Undefined

\* checkWalletHealth up to its await
StartWalletHealth(call) ==
    /\ sfCall' = call
    /\ IF ConstructionError(call) # Undefined
       THEN /\ sfResult' = [sfResult EXCEPT !.status = "rejected",
                                            !.error = ConstructionError(call)]
            /\ sfPc' = "done"
       ELSE /\ sfResult' = sfResult
            /\ sfPc' = "awaitBalance"
    /\ UNCHANGED <<sfLookup, sfQuick, nlpVars, simVars,
                   concVars, driftVars>>

CheckWalletHealthCall ==
    /\ sfPc = "idle"
    /\ \E a \in WalletAddresses, u \in RpcUrls :
           StartWalletHealth([sfCall EXCEPT !.fn = "checkWalletHealth",
                                            !.walletAddress = a, !.rpcUrl = u])

\* preflightCheck up to the await inside the checkWalletHealth it awaits
PreflightCheckCall ==
    /\ sfPc = "idle"
    /\ \E a \in WalletAddresses, u \in RpcUrls, o \in Operations, p \in PreflightInputs :
           StartWalletHealth([fn |-> "preflightCheck", walletAddress |-> a,
                              rpcUrl |-> u, operation |-> o, params |-> p])

\* what the call in progress returns once getBalance has settled as lookup
SafetyReturn(call, lookup) ==
    IF call.fn = "preflightCheck"
    THEN preflightReport(walletHealth(lookup), call.operation, call.params)
    ELSE walletHealth(lookup)

SettleBalance(lookup) ==
    /\ sfLookup' = lookup
    /\ sfResult' = [sfResult EXCEPT !.status = "resolved",
                                    !.report = SafetyReturn(sfCall, lookup)]
    /\ sfPc' = "done"
    /\ UNCHANGED <<sfCall, sfQuick, nlpVars, simVars,
                   concVars, driftVars>>

\* await connection.getBalance(pubkey) resolves
GetBalanceResolves ==
    /\ sfPc = "awaitBalance"
    /\ \E b \in LamportBalances :
           SettleBalance([status |-> "ok", lamports |-> b, message |-> Undefined])

\* await connection.getBalance(pubkey) rejects
GetBalanceRejects ==
    /\ sfPc = "awaitBalance"
    /\ \E m \in LookupErrors :
           SettleBalance([status |-> "failed", lamports |-> 0, message |-> m])

\* array.join('; ') of messages
RECURSIVE join(_)
join(messages) ==
    IF messages = <<>> THEN <<>>
    ELSE IF Len(messages) = 1 THEN messages[1]
    ELSE messages[1] \o <<"; ">> \o join(Tail(messages))

\* checks.filter(c => levels.has(c.level)).map(c => c.message)
messagesAt(checks, levels) ==
    LET kept == SelectSeq(checks, LAMBDA c : c.level \in levels)
    IN  [i \in DOMAIN kept |-> kept[i].message]

\* a summary that surfaces the last warning
quickSafetyCheckLastWarning(report) ==
    LET warnings == messagesAt(report.checks, {"warning"})
    IN  IF report.overallSafe /\ warnings # <<>>
        THEN [safe |-> TRUE,
              reason |-> <<"Safe with ">> \o NumberToString(Len(warnings))
                             \o <<" warning(s): ">> \o warnings[Len(warnings)]]
        ELSE IF report.overallSafe
        THEN [safe |-> TRUE, reason |-> <<"All safety checks passed">>]
        ELSE [safe |-> FALSE,
              reason |-> join(messagesAt(report.checks, {"danger", "blocked"}))]

quickSafetyCheck(report) ==
    LET warnings == messagesAt(report.checks, {"warning"})
    IN  IF report.overallSafe /\ warnings # <<>>
        THEN [safe |-> TRUE,
              reason |-> <<"Safe with ">> \o NumberToString(Len(warnings))
                             \o <<" warning(s): ">> \o warnings[1]]
        ELSE IF report.overallSafe
        THEN [safe |-> TRUE, reason |-> <<"All safety checks passed">>]
        ELSE [safe |-> FALSE,
              reason |-> join(messagesAt(report.checks, {"danger", "blocked"}))]

\* the caller hands the report it got to quickSafetyCheck
QuickSafetyCheckCall ==
    /\ sfPc = "done"
    /\ sfResult.status = "resolved"
    /\ sfQuick' = quickSafetyCheck(sfResult.report)
    /\ sfPc' = "summarized"
    /\ UNCHANGED <<sfCall, sfLookup, sfResult, nlpVars, simVars,
                   concVars, driftVars>>

NextSafety ==
    \/ QuickSafetyCheckCall
    \/ CheckSwapSafetyCall
    \/ CheckWalletHealthCall
    \/ PreflightCheckCall
    \/ GetBalanceResolves
    \/ GetBalanceRejects

SpecSafety == InitSafety /\ [][NextSafety]_vars

-----------------------------------------------------------------------------
(* Properties of the safety evaluator.                                     *)

Reported == sfPc \in {"done", "summarized"} /\ sfResult.status = "resolved"
Unsafe(report) == some(report.checks, "danger") \/ some(report.checks, "blocked")

\* C1: in every report returned by checkSwapSafety, checkWalletHealth (lookup
\* succeeded or failed) and preflightCheck, overallSafe is false if and only
\* if some check has level 'danger' or 'blocked'.
C1_OverallSafeIff ==
    Reported => ((~sfResult.report.overallSafe) <=> Unsafe(sfResult.report))

\* a swap report whose only failing check is the blocked fee reserve
C1_Witness ==
    /\ Reported
    /\ sfCall.fn = "checkSwapSafety"
    /\ some(sfResult.report.checks, "blocked")
    /\ ~some(sfResult.report.checks, "danger")
    /\ ~sfResult.report.overallSafe

\* C3: checkWalletHealth never rejects: whatever the address and however the
\* balance lookup ends it resolves to a report, and a failure is reported as
\* exactly one blocked check carrying the failure message, with overallSafe
\* false.
C3_WalletHealthNeverRejects ==
    (sfPc = "done" /\ sfCall.fn = "checkWalletHealth")
        => /\ sfResult.status = "resolved"
           /\ (sfLookup.status = "failed")
                  => /\ ~sfResult.report.overallSafe
                     /\ Len(sfResult.report.checks) = 1
                     /\ sfResult.report.checks[1].level = "blocked"
                     /\ sfResult.report.checks[1].details = sfLookup.message


SwapReported == Reported /\ sfCall.fn = "checkSwapSafety"

\* the level the balance fraction of a swap calls for: pct is Infinity for a
\* positive amount of an empty wallet and NaN for 0 of 0
FractionLevel(p) ==
    IF p.walletBalance = 0
    THEN IF p.inputAmount > 0 THEN "danger" ELSE "safe"
    ELSE IF p.inputAmount * 100 > 90 * p.walletBalance THEN "danger"
    ELSE IF p.inputAmount * 100 > 50 * p.walletBalance THEN "warning"
    ELSE "safe"

\* the recommendation starts with the word
StartsWith(recommendation, word) ==
    recommendation # <<>> /\ Head(recommendation) = word

\* C13: the first check of every checkSwapSafety report is the balance-fraction
\* check: danger (not passed) when pct > 90, warning (passed) when
\* 50 < pct <= 90, safe otherwise; 95 of 100 is unsafe and NOT RECOMMENDED,
\* 1 of 100 at 50 bps is safe and SAFE.
C13_BalanceFractionFirst ==
    SwapReported
        => /\ Head(sfResult.report.checks[1].message) = "Using "
           /\ sfResult.report.checks[1].level = FractionLevel(sfCall.params)
           /\ sfResult.report.checks[1].passed
                  <=> (FractionLevel(sfCall.params) # "danger")
           /\ (sfCall.params.inputAmount = 950000 /\ sfCall.params.walletBalance = 1000000)
                  => /\ ~sfResult.report.overallSafe
                     /\ StartsWith(sfResult.report.recommendation, "NOT RECOMMENDED")
           /\ (/\ sfCall.params.inputAmount = 10000
               /\ sfCall.params.walletBalance = 1000000
               /\ sfCall.params.slippageBps = 50)
                  => /\ sfResult.report.overallSafe
                     /\ StartsWith(sfResult.report.recommendation, "SAFE")

\* exactly 90 percent of the wallet: a warning
C13_Witness ==
    /\ SwapReported
    /\ sfCall.params.inputAmount = 900
    /\ sfCall.params.walletBalance = 1000
    /\ sfResult.report.checks[1].level = "warning"
    /\ sfResult.report.checks[1].passed


ReserveShort(p) ==
    p.inputToken = <<"S","O","L">> /\ p.walletBalance - p.inputAmount < 10

C29_OverspendUnsafe ==
    (/\ SwapReported
     /\ sfCall.params.walletBalance >= 0
     /\ sfCall.params.inputAmount > sfCall.params.walletBalance)
        => ~sfResult.report.overallSafe

\* more than the wallet holds of a token that is not SOL, without slippage
C29_Witness ==
    /\ SwapReported
    /\ sfCall.params.inputToken = <<"U","S","D","C">>
    /\ sfCall.params.slippageBps = 0
    /\ sfCall.params.inputAmount = 1001
    /\ sfCall.params.walletBalance = 1000
    /\ ~sfResult.report.overallSafe

\* any amount of an empty wallet
C29_WitnessEmptyWallet ==
    /\ SwapReported
    /\ sfCall.params.inputToken = <<"U","S","D","C">>
    /\ sfCall.params.slippageBps = 0
    /\ sfCall.params.inputAmount = 1
    /\ sfCall.params.walletBalance = 0
    /\ ~sfResult.report.overallSafe

HealthReported == Reported /\ sfCall.fn = "checkWalletHealth"

\* C17: when the balance lookup succeeds, checkWalletHealth returns exactly one
\* check: blocked below 0.001 SOL, warning from 0.001 up to but not including
\* 0.01 SOL, safe from 0.01 SOL on.
C17_WalletHealthLevels ==
    (HealthReported /\ sfLookup.status = "ok")
        => /\ Len(sfResult.report.checks) = 1
           /\ (sfLookup.lamports < 1000000)
                  => sfResult.report.checks[1].level = "blocked"
           /\ (sfLookup.lamports >= 1000000 /\ sfLookup.lamports < 10000000)
                  => sfResult.report.checks[1].level = "warning"
           /\ (sfLookup.lamports >= 10000000)
                  => sfResult.report.checks[1].level = "safe"

\* exactly 0.001 SOL
C17_Witness ==
    /\ HealthReported
    /\ sfLookup.status = "ok"
    /\ sfLookup.lamports = 1000000
    /\ sfResult.report.checks[1].level = "warning"
    /\ sfResult.report.overallSafe


PreflightReported == Reported /\ sfCall.fn = "preflightCheck"

\* the checks of checkSwapSafety(params) when the operation is exactly "swap"
OperationChecks(call) ==
    IF call.operation = "swap" THEN checkSwapSafety(call.params).checks ELSE <<>>

\* C18: the checks of preflightCheck are the wallet-health checks followed,
\* only when operation is exactly "swap", by the checks of
\* checkSwapSafety(params) in their order; its recommendation is exactly
\* BLOCKED if a check is blocked, else NOT RECOMMENDED if a check is danger,
\* else SAFE TO PROCEED.
C18_PreflightOrder ==
    PreflightReported
        => /\ sfResult.report.checks = walletHealth(sfLookup).checks \o OperationChecks(sfCall)
           /\ sfResult.report.recommendation =
                  IF some(sfResult.report.checks, "blocked") THEN <<"BLOCKED">>
                  ELSE IF some(sfResult.report.checks, "danger") THEN <<"NOT RECOMMENDED">>
                  ELSE <<"SAFE", " TO PROCEED">>

\* a healthy wallet and a swap that leaves no reserve
C18_Witness ==
    /\ PreflightReported
    /\ sfCall.operation = "swap"
    /\ Len(sfResult.report.checks) = 4
    /\ Head(sfResult.report.checks[1].message) = "Low SOL balance: "
    /\ Head(sfResult.report.checks[2].message) = "Using "
    /\ sfResult.report.checks[4].level = "blocked"
    /\ sfResult.report.recommendation = <<"BLOCKED">>


Summarized == sfPc = "summarized"

\* the positions of the checks of a report that have one of the levels
Positions(report, levels) == {i \in DOMAIN report.checks : report.checks[i].level \in levels}

\* the messages of the checks at the positions from i on, in order, with "; "
\* between them
RECURSIVE IssueText(_, _, _)
IssueText(report, at, i) ==
    IF i > Len(report.checks) THEN <<>>
    ELSE IF i \notin at THEN IssueText(report, at, i + 1)
    ELSE IF \E k \in at : k > i
    THEN report.checks[i].message \o <<"; ">> \o IssueText(report, at, i + 1)
    ELSE report.checks[i].message

\* C19: quickSafetyCheck(report).safe equals report.overallSafe; when safe the
\* reason surfaces the message of the first warning check, or is the generic
\* pass message when there is no warning; when unsafe the reason is the
\* messages of all danger and blocked checks, in order, joined with "; ".
C19_QuickSummary ==
    Summarized
        => /\ sfQuick.safe = sfResult.report.overallSafe
           /\ (sfQuick.safe /\ Positions(sfResult.report, {"warning"}) # {})
                  => sfQuick.reason =
                         <<"Safe with ">>
                             \o NumberToString(Cardinality(Positions(sfResult.report, {"warning"})))
                             \o <<" warning(s): ">>
                             \o sfResult.report.checks[
                                    Min(Positions(sfResult.report, {"warning"}))].message
           /\ (sfQuick.safe /\ Positions(sfResult.report, {"warning"}) = {})
                  => sfQuick.reason = <<"All safety checks passed">>
           /\ (~sfQuick.safe)
                  => sfQuick.reason =
                         IssueText(sfResult.report,
                                   Positions(sfResult.report, {"danger", "blocked"}), 1)

\* two warnings, the first one surfaced
C19_Witness ==
    /\ Summarized
    /\ sfQuick.safe
    /\ Cardinality(Positions(sfResult.report, {"warning"})) = 2
    /\ sfQuick.reason[4] = "Using "

-----------------------------------------------------------------------------
(* simulate.ts: simulateTransaction.  A fee is an integer number of        *)
(* lamports.  A collaborator response is the value field of what           *)
(* connection.simulateTransaction resolves to; a key whose value is null   *)
(* or undefined is left out of it, except err, which is Null or an error.  *)

\* const fee = 0.000005 SOL, in lamports
fee == 5000

\* JSON.stringify of the errors the collaborator reports
JSONstringify(err) ==
    IF err = <<"AccountNotFound">> THEN <<"\"AccountNotFound\"">>
    ELSE <<"{\"InstructionError\":[0,{\"Custom\":1}]}">>

\* result.logs || []
logsOf(result) == IF "logs" \in DOMAIN result THEN result.logs ELSE <<>>

\* result.unitsConsumed || 0
unitsOf(result) ==
    IF "unitsConsumed" \in DOMAIN result THEN result.unitsConsumed ELSE 0
\* a compute warning whose threshold is inclusive
computeWarningsInclusive(unitsConsumed) ==
    IF unitsConsumed >= 200000
    THEN <<<<"High compute usage - transaction may be complex">>>>
    ELSE <<>>

computeWarnings(unitsConsumed) ==
    IF unitsConsumed > 200000
    THEN <<<<"High compute usage - transaction may be complex">>>>
    ELSE <<>>

\* the body of the loop over the logs
logWarning(log) ==
    (IF includes(log, <<"T","r","a","n","s","f","e","r">>)
     THEN <<<<"Transaction includes token/SOL transfers">>>> ELSE <<>>)
    \o (IF includes(log, <<"i","n","s","u","f","f","i","c","i","e","n","t">>)
        THEN <<<<"Possible insufficient funds">>>> ELSE <<>>)

RECURSIVE logWarnings(_)
logWarnings(logs) ==
    IF logs = <<>> THEN <<>>
    ELSE logWarning(Head(logs)) \o logWarnings(Tail(logs))
\* a result whose error is the printed err whatever err is
previewResultAlwaysError(result) ==
    [success |-> result.err = Null,
     logs |-> logsOf(result),
     unitsConsumed |-> unitsOf(result),
     fee |-> fee,
     balanceChanges |-> <<>>,
     error |-> IF result.err # Null THEN JSONstringify(result.err) ELSE <<"null">>,
     warnings |-> computeWarnings(unitsOf(result)) \o logWarnings(logsOf(result))]

\* lines 58-91: the result built from a collaborator response
previewResult(result) ==
    [success |-> result.err = Null,
     logs |-> logsOf(result),
     unitsConsumed |-> unitsOf(result),
     fee |-> fee,
     balanceChanges |-> <<>>,
     error |-> IF result.err # Null THEN JSONstringify(result.err) ELSE Undefined,
     warnings |-> computeWarnings(unitsOf(result)) \o logWarnings(logsOf(result))]

\* lines 93-103: the catch block
caughtResult(message) ==
    [success |-> FALSE,
     logs |-> <<>>,
     unitsConsumed |-> 0,
     fee |-> 0,
     balanceChanges |-> <<>>,
     error |-> message,
     warnings |-> <<<<"Simulation failed - transaction may be invalid">>>>]

\* a fee of the result, a number of SOL, as a template literal prints it
RECURSIVE dropZeros(_)
dropZeros(ds) ==
    IF ds[Len(ds)] = "0" THEN dropZeros(SubSeq(ds, 1, Len(ds) - 1)) ELSE ds

solToString(lamports) ==
    IF lamports % 1000000000 = 0 THEN NumberToString(lamports \div 1000000000)
    ELSE dropZeros(FixedDigits(lamports, 9))

\* lines 116-126, with the result of the awaited simulateTransaction
willTransactionSucceed(result) ==
    IF result.success
    THEN [success |-> TRUE,
          reason |-> <<"Transaction will succeed. Estimated fee: ">>
                         \o solToString(result.fee) \o <<" SOL, compute: ">>
                         \o NumberToString(result.unitsConsumed) \o <<" units">>]
    ELSE [success |-> FALSE,
          reason |-> IF result.error \notin {Undefined, <<>>} THEN result.error
                     ELSE <<"Transaction simulation failed">>]

\* lines 139-143, with the result of the awaited simulateTransaction
estimateTransactionCost(result) ==
    [fee |-> result.fee, computeUnits |-> result.unitsConsumed, priorityFee |-> 0]

-----------------------------------------------------------------------------
(* The simulation previewer under its caller and its collaborator.         *)

PreviewFunctions == {"simulateTransaction", "willTransactionSucceed", "estimateTransactionCost"}
TxKinds == {"legacy", "versioned"}
FeePayers == {"payerA", "payerB"}
Blockhashes == {"hashA", "hashB"}

\* the transaction as the caller hands it in
CallerTransactions ==
    [kind : {"legacy"}, recentBlockhash : {"none", "hashOld"}, feePayer : {"none", "payerB"}]
        \cup [kind : {"versioned"}, recentBlockhash : {"hashOld"}, feePayer : {"payerA"}]

LogPlain == <<"P","r","o","g","r","a","m"," ","s","u","c","c","e","s","s">>
LogTransfer == <<"I","n","s","t","r","u","c","t","i","o","n",":"," ","T","r","a","n","s","f","e","r">>
LogInsufficient == <<"T","r","a","n","s","f","e","r",":"," ","i","n","s","u","f","f","i","c","i","e","n","t"," ","l","a","m","p","o","r","t","s">>
LogLowerCase == <<"t","r","a","n","s","f","e","r"," ","f","a","i","l","e","d",":"," ","I","n","s","u","f","f","i","c","i","e","n","t">>
LogLists == {<<>>, <<LogPlain>>, <<LogTransfer, LogPlain>>, <<LogInsufficient>>,
             <<LogLowerCase, LogTransfer>>}
SimulationErrs == {Null, <<"AccountNotFound">>, <<"InstructionError">>}
UnitCounts == {0, 150000, 200000, 200001}
SimulationResponses ==
    [err : SimulationErrs, logs : LogLists, unitsConsumed : UnitCounts]
        \cup [err : SimulationErrs, unitsConsumed : {200001}]
        \cup [err : SimulationErrs, logs : {<<LogTransfer, LogPlain>>}]
        \cup [err : SimulationErrs]
CollaboratorErrors == {<<"fetch failed">>, <<"429 Too Many Requests">>}

InitSim == IdleNlp /\ IdleSafety /\ IdleSim /\ IdleConc /\ IdleDrift

\* lines 38-43: the constructor runs before the try block, so what it throws
\* rejects the promise of the async function
SimulateTransactionCall ==
    /\ smPc = "idle"
    /\ \E f \in PreviewFunctions, tx \in CallerTransactions, payer \in FeePayers,
          url \in RpcUrls :
           /\ smCall' = [fn |-> f, rpcUrl |-> url, feePayer |-> payer]
           /\ smTx' = tx
           /\ IF ConnectionAccepts(url)
              THEN /\ smPc' = "awaitBalance"
                   /\ smRemote' = <<"getBalance">>
                   /\ UNCHANGED <<smFailure, smResult>>
              ELSE /\ smPc' = "done"
                   /\ smRemote' = <<>>
                   /\ smFailure' = [step |-> "connect", message |-> EndpointError]
                   /\ smResult' = [smResult EXCEPT !.status = "rejected",
                                                   !.error = EndpointError]
    /\ UNCHANGED <<smAnswer, smResponse, nlpVars, safetyVars,
                   concVars, driftVars>>

\* an await inside the try block rejects: the catch block returns
Caught(step, message) ==
    /\ smFailure' = [step |-> step, message |-> message]
    /\ smResult' = [smResult EXCEPT !.status = "resolved",
                                    !.value = caughtResult(message)]
    /\ smPc' = "done"
    /\ UNCHANGED <<smCall, smTx, smRemote, smAnswer, smResponse, nlpVars, safetyVars,
                   concVars, driftVars>>

\* line 45 resolves; the balance itself is not used.  The next remote call
\* is issued: getLatestBlockhash for a legacy transaction (line 50), the
\* simulate call otherwise (line 55)
PreBalanceResolves ==
    /\ smPc = "awaitBalance"
    /\ smPc' = IF smTx.kind = "legacy" THEN "awaitBlockhash" ELSE "awaitSimulate"
    /\ smRemote' = Append(smRemote, IF smTx.kind = "legacy" THEN "getLatestBlockhash"
                                    ELSE "simulateTransaction")
    /\ UNCHANGED <<smCall, smTx, smFailure, smResult, smAnswer, smResponse, nlpVars,
                   safetyVars,
                   concVars, driftVars>>

PreBalanceRejects ==
    /\ smPc = "awaitBalance"
    /\ \E m \in CollaboratorErrors : Caught("getBalance", m)

\* lines 50-53: the blockhash arrives, the transaction is stamped and the
\* simulate call is issued
LatestBlockhashResolves ==
    /\ smPc = "awaitBlockhash"
    /\ \E blockhash \in Blockhashes :
           smTx' = [smTx EXCEPT !.recentBlockhash = blockhash,
                                !.feePayer = smCall.feePayer]
    /\ smPc' = "awaitSimulate"
    /\ smRemote' = Append(smRemote, "simulateTransaction")
    /\ UNCHANGED <<smCall, smFailure, smResult, smAnswer, smResponse, nlpVars, safetyVars,
                   concVars, driftVars>>

LatestBlockhashRejects ==
    /\ smPc = "awaitBlockhash"
    /\ \E m \in CollaboratorErrors : Caught("getLatestBlockhash", m)

\* lines 53/55 resolve and lines 58-91 build the result
SimulateResolves ==
    /\ smPc = "awaitSimulate"
    /\ \E response \in SimulationResponses :
           /\ smResponse' = response
           /\ smResult' = [smResult EXCEPT !.status = "resolved",
                                           !.value = previewResult(response)]
    /\ smPc' = "done"
    /\ UNCHANGED <<smCall, smTx, smFailure, smRemote, smAnswer, nlpVars, safetyVars,
                   concVars, driftVars>>

SimulateRejects ==
    /\ smPc = "awaitSimulate"
    /\ \E m \in CollaboratorErrors : Caught("simulateTransaction", m)

\* lines 109-144: the function that awaited simulateTransaction goes on with
\* its result; a rejection rejects it too
PreviewAnswers ==
    /\ smPc = "done"
    /\ smCall.fn # "simulateTransaction"
    /\ smAnswer' =
           IF smResult.status = "rejected"
           THEN [status |-> "rejected", error |-> smResult.error]
           ELSE [status |-> "resolved",
                 value |-> IF smCall.fn = "willTransactionSucceed"
                           THEN willTransactionSucceed(smResult.value)
                           ELSE estimateTransactionCost(smResult.value)]
    /\ smPc' = "answered"
    /\ UNCHANGED <<smCall, smTx, smFailure, smResult, smRemote, smResponse, nlpVars,
                   safetyVars,
                   concVars, driftVars>>

NextSim ==
    \/ PreviewAnswers
    \/ SimulateTransactionCall
    \/ PreBalanceResolves
    \/ PreBalanceRejects
    \/ LatestBlockhashResolves
    \/ LatestBlockhashRejects
    \/ SimulateResolves
    \/ SimulateRejects

SpecSim == InitSim /\ [][NextSim]_vars

-----------------------------------------------------------------------------
(* Properties of the simulation previewer.                                 *)

\* C2: simulateTransaction never propagates an exception: whatever the
\* transaction, the fee payer and the rpcUrl, and whichever step fails, the
\* call resolves, and after a failure the result has success false, no logs,
\* zero units and fee, the failure's message as error and a warning.
C2_NeverPropagates ==
    (smPc = "done")
        => /\ smResult.status = "resolved"
           /\ (smFailure.step # "none")
                  => /\ ~smResult.value.success
                     /\ smResult.value.logs = <<>>
                     /\ smResult.value.unitsConsumed = 0
                     /\ smResult.value.fee = 0
                     /\ smResult.value.error = smFailure.message
                     /\ smResult.value.warnings # <<>>


\* a preview has come back to its caller with a result
Previewed ==
    /\ smResult.status = "resolved"
    /\ \/ smPc = "done" /\ smCall.fn = "simulateTransaction"
       \/ smPc = "answered"

\* C20: each simulateTransaction call, made directly or through
\* willTransactionSucceed or estimateTransactionCost, issues exactly one
\* remote call, the simulate call, so that the outcome depends on the simulate
\* endpoint's response only.
C20_SingleRemoteCall ==
    Previewed => smRemote = <<"simulateTransaction">>


\* a call has returned the result it built from a collaborator response
FromResponse == smPc \in {"done", "answered"} /\ smResponse # NoResponse

\* C25: in a result built from a collaborator response, success is true iff
\* the err of the response is null, and error is present iff success is
\* false; fee is the same constant and balanceChanges is empty whatever
\* unitsConsumed and err are.
C25_SuccessIffNoErr ==
    FromResponse =>
        /\ smResult.value.success <=> (smResponse.err = Null)
        /\ (smResult.value.error # Undefined) <=> ~smResult.value.success
        /\ smResult.value.fee = 5000
        /\ smResult.value.balanceChanges = <<>>

C25_Witness ==
    /\ FromResponse
    /\ smResponse.err = <<"AccountNotFound">>
    /\ smResult.value.unitsConsumed = 200001
    /\ ~smResult.value.success
    /\ smResult.value.error = <<"\"AccountNotFound\"">>
    /\ smResult.value.fee = 5000

C25_WitnessSuccess ==
    /\ FromResponse
    /\ smResponse.err = Null
    /\ smResult.value.unitsConsumed = 0
    /\ smResult.value.success
    /\ smResult.value.error = Undefined
    /\ smResult.value.fee = 5000

\* the warnings the log lines call for, line by line
RECURSIVE Flatten(_)
Flatten(ss) == IF ss = <<>> THEN <<>> ELSE Head(ss) \o Flatten(Tail(ss))
Contains(log, word) ==
    \E i \in 1..(Len(log) - Len(word) + 1) : SubSeq(log, i, i + Len(word) - 1) = word
LineWarnings(log) ==
    (IF Contains(log, <<"T","r","a","n","s","f","e","r">>)
     THEN << <<"Transaction includes token/SOL transfers">> >> ELSE <<>>)
    \o (IF Contains(log, <<"i","n","s","u","f","f","i","c","i","e","n","t">>)
        THEN << <<"Possible insufficient funds">> >> ELSE <<>>)
ResponseLogs == IF "logs" \in DOMAIN smResponse THEN smResponse.logs ELSE <<>>
ResponseUnits ==
    IF "unitsConsumed" \in DOMAIN smResponse THEN smResponse.unitsConsumed ELSE 0

C26_WitnessBoth ==
    /\ FromResponse
    /\ ResponseUnits = 200001
    /\ ResponseLogs = <<LogInsufficient>>
    /\ Len(smResult.value.warnings) = 3


-----------------------------------------------------------------------------
(* Two simulateTransaction calls in flight at once.  Each call has its own  *)
(* locals (lines 38-41, 45-58); a Transaction object is shared by the calls *)
(* that were handed the same object.  A call runs from one await to the     *)
(* next without interruption.                                               *)

\* a stamp that leaves the fee payer of the transaction as it was
stampBlockhashOnly(tx, blockhash, feePayer) ==
    [tx EXCEPT !.recentBlockhash = blockhash]

\* lines 51-52
stamp(tx, blockhash, feePayer) ==
    [tx EXCEPT !.recentBlockhash = blockhash, !.feePayer = feePayer]

ConcurrentResponses ==
    {[err |-> Null, logs |-> <<LogPlain>>, unitsConsumed |-> 150000],
     [err |-> <<"AccountNotFound">>, logs |-> <<LogInsufficient>>, unitsConsumed |-> 200001],
     [err |-> Null]}

InitConc ==
    /\ IdleNlp /\ IdleSafety /\ IdleSim /\ IdleDrift
    /\ ccCalls = [c \in Callers |-> IdleCall]
    /\ ccTx \in [TxObjects -> CallerTransactions]

\* lines 33-45: the call is made and awaits the balance
ConcCall(c) ==
    /\ ccCalls[c].pc = "idle"
    /\ \E o \in TxObjects, payer \in FeePayers :
           ccCalls' = [ccCalls EXCEPT ![c].pc = "awaitBalance", ![c].tx = o,
                                      ![c].feePayer = payer]
    /\ UNCHANGED <<ccTx, nlpVars, safetyVars, simVars, driftVars>>

\* lines 93-103 for call c
ConcCaught(c, message) ==
    /\ ccCalls' = [ccCalls EXCEPT ![c].pc = "done", ![c].caught = message,
                                  ![c].result = caughtResult(message)]
    /\ UNCHANGED <<ccTx, nlpVars, safetyVars, simVars, driftVars>>

\* line 45 resolves: a legacy transaction awaits the blockhash (line 50), any
\* other is handed to the simulate call as it is (line 55)
ConcBalanceResolves(c) ==
    /\ ccCalls[c].pc = "awaitBalance"
    /\ ccCalls' =
           IF ccTx[ccCalls[c].tx].kind = "legacy"
           THEN [ccCalls EXCEPT ![c].pc = "awaitBlockhash"]
           ELSE [ccCalls EXCEPT ![c].pc = "awaitSimulate",
                                ![c].request = ccTx[ccCalls[c].tx]]
    /\ UNCHANGED <<ccTx, nlpVars, safetyVars, simVars, driftVars>>

ConcBalanceRejects(c) ==
    /\ ccCalls[c].pc = "awaitBalance"
    /\ \E m \in CollaboratorErrors : ConcCaught(c, m)

\* lines 50-53: the blockhash arrives, the transaction object is stamped and
\* handed to the simulate call
ConcBlockhashResolves(c) ==
    /\ ccCalls[c].pc = "awaitBlockhash"
    /\ \E blockhash \in Blockhashes :
           /\ ccTx' = [ccTx EXCEPT ![ccCalls[c].tx] =
                           stamp(ccTx[ccCalls[c].tx], blockhash, ccCalls[c].feePayer)]
           /\ ccCalls' = [ccCalls EXCEPT ![c].pc = "awaitSimulate",
                                         ![c].blockhash = blockhash,
                                         ![c].request = ccTx'[ccCalls[c].tx]]
    /\ UNCHANGED <<nlpVars, safetyVars, simVars, driftVars>>

ConcBlockhashRejects(c) ==
    /\ ccCalls[c].pc = "awaitBlockhash"
    /\ \E m \in CollaboratorErrors : ConcCaught(c, m)

\* lines 53/55 resolve and lines 58-91 build the result of call c
ConcSimulateResolves(c) ==
    /\ ccCalls[c].pc = "awaitSimulate"
    /\ \E response \in ConcurrentResponses :
           ccCalls' = [ccCalls EXCEPT ![c].pc = "done", ![c].response = response,
                                      ![c].result = previewResult(response)]
    /\ UNCHANGED <<ccTx, nlpVars, safetyVars, simVars, driftVars>>

ConcSimulateRejects(c) ==
    /\ ccCalls[c].pc = "awaitSimulate"
    /\ \E m \in CollaboratorErrors : ConcCaught(c, m)

NextConc ==
    \E c \in Callers :
        \/ ConcCall(c)
        \/ ConcBalanceResolves(c)
        \/ ConcBalanceRejects(c)
        \/ ConcBlockhashResolves(c)
        \/ ConcBlockhashRejects(c)
        \/ ConcSimulateResolves(c)
        \/ ConcSimulateRejects(c)

SpecConc == InitConc /\ [][NextConc]_vars

-----------------------------------------------------------------------------
(* drift.ts: DriftModule.  The DriftClient objects are numbered in the      *)
(* order initialize creates them, and 0 stands for null.  initialize is     *)
(* suspended once, at subscribe() (line 210), and cleanup once, at          *)
(* unsubscribe() (line 705); the operations run their guard before they     *)
(* suspend.                                                                 *)

MaxClients == 2
MaxEvents == 3

DriftOperations ==
    {"getMarkets", "getMarket", "getAccountInfo", "getPositions", "deposit", "withdraw",
     "openPosition", "closePosition", "getFundingPayments", "getFreeCollateral"}

\* line 204: a client that has not been subscribed
NewClient == [subscribed |-> FALSE, unsubscribed |-> FALSE]

\* how a call ended
Ended(call, ok) == [call |-> call, ok |-> ok]

\* lines 222-226: whether the guard throws 'Drift client not initialized.
\* Call initialize() first.'
ensureInitialized == ~drIsInitialized \/ drClient = 0

InitDrift ==
    /\ IdleNlp /\ IdleSafety /\ IdleSim /\ IdleConc
    /\ drWallet \in BOOLEAN
    /\ drClients = <<>>
    /\ drClient = 0
    /\ drIsInitialized = FALSE
    /\ drSubscribing = {}
    /\ drUnsubscribing = {}
    /\ drLog = <<>>
    /\ drOp = NoOperation

\* WalletModule.create / import: the wallet gets its keypair
LoadWallet ==
    /\ ~drWallet
    /\ drWallet' = TRUE
    /\ UNCHANGED <<drClients, drClient, drIsInitialized, drSubscribing, drUnsubscribing,
                   drLog, drOp, nlpVars, safetyVars, simVars, concVars>>

\* lines 170-210: without a keypair the call throws at once; with one a new
\* client is stored in this.driftClient and its subscribe() is awaited
InitializeCall ==
    /\ IF ~drWallet
       THEN /\ Len(drLog) < MaxEvents
            /\ drLog' = Append(drLog, Ended("initialize", FALSE))
            /\ UNCHANGED <<drClients, drClient, drSubscribing>>
       ELSE /\ Len(drClients) < MaxClients
            /\ drClients' = Append(drClients, NewClient)
            /\ drClient' = Len(drClients) + 1
            /\ drSubscribing' = drSubscribing \cup {Len(drClients) + 1}
            /\ UNCHANGED drLog
    /\ UNCHANGED <<drWallet, drIsInitialized, drUnsubscribing, drOp,
                   nlpVars, safetyVars, simVars, concVars>>

\* lines 210-212: subscribe() resolves and initialize returns
SubscribeResolves ==
    /\ Len(drLog) < MaxEvents
    /\ \E c \in drSubscribing :
           /\ drClients' = [drClients EXCEPT ![c].subscribed = TRUE]
           /\ drSubscribing' = drSubscribing \ {c}
    /\ drIsInitialized' = TRUE
    /\ drLog' = Append(drLog, Ended("initialize", TRUE))
    /\ UNCHANGED <<drWallet, drClient, drUnsubscribing, drOp,
                   nlpVars, safetyVars, simVars, concVars>>

\* lines 213-216: subscribe() rejects and initialize throws
SubscribeRejects ==
    /\ Len(drLog) < MaxEvents
    /\ \E c \in drSubscribing : drSubscribing' = drSubscribing \ {c}
    /\ drLog' = Append(drLog, Ended("initialize", FALSE))
    /\ UNCHANGED <<drWallet, drClients, drClient, drIsInitialized, drUnsubscribing, drOp,
                   nlpVars, safetyVars, simVars, concVars>>

\* lines 703-705: without a client the call returns at once; with one its
\* unsubscribe() is awaited
CleanupCall ==
    /\ IF drClient = 0
       THEN /\ Len(drLog) < MaxEvents
            /\ drLog' = Append(drLog, Ended("cleanup", TRUE))
            /\ UNCHANGED drUnsubscribing
       ELSE /\ drClient \notin drUnsubscribing
            /\ drUnsubscribing' = drUnsubscribing \cup {drClient}
            /\ UNCHANGED drLog
    /\ UNCHANGED <<drWallet, drClients, drClient, drIsInitialized, drSubscribing, drOp,
                   nlpVars, safetyVars, simVars, concVars>>

\* lines 705-707: unsubscribe() resolves and cleanup returns
UnsubscribeResolves ==
    /\ Len(drLog) < MaxEvents
    /\ \E c \in drUnsubscribing :
           /\ drClients' = [drClients EXCEPT ![c].unsubscribed = TRUE]
           /\ drUnsubscribing' = drUnsubscribing \ {c}
    /\ drIsInitialized' = FALSE
    /\ drLog' = Append(drLog, Ended("cleanup", TRUE))
    /\ UNCHANGED <<drWallet, drClient, drSubscribing, drOp,
                   nlpVars, safetyVars, simVars, concVars>>

\* line 705: unsubscribe() rejects and so does cleanup
UnsubscribeRejects ==
    /\ Len(drLog) < MaxEvents
    /\ \E c \in drUnsubscribing : drUnsubscribing' = drUnsubscribing \ {c}
    /\ drLog' = Append(drLog, Ended("cleanup", FALSE))
    /\ UNCHANGED <<drWallet, drClients, drClient, drIsInitialized, drSubscribing, drOp,
                   nlpVars, safetyVars, simVars, concVars>>

\* the first statement of an operation (getMarket through getMarkets,
\* getPositions through getAccountInfo): the guard throws, or the operation
\* goes on to use this.driftClient
OperationCall ==
    /\ \E op \in DriftOperations :
           drOp' = [name |-> op,
                    outcome |-> IF ensureInitialized THEN "notInitialized" ELSE "proceeds",
                    at |-> Len(drLog)]
    /\ UNCHANGED <<drWallet, drClients, drClient, drIsInitialized, drSubscribing,
                   drUnsubscribing, drLog, nlpVars, safetyVars, simVars, concVars>>

NextDrift ==
    \/ LoadWallet
    \/ InitializeCall
    \/ SubscribeResolves
    \/ SubscribeRejects
    \/ CleanupCall
    \/ UnsubscribeResolves
    \/ UnsubscribeRejects
    \/ OperationCall

SpecDrift == InitDrift /\ [][NextDrift]_vars


\* the caller awaits every initialize and cleanup before the next call
AtRest == drSubscribing = {} /\ drUnsubscribing = {}
NextDriftSequential ==
    \/ AtRest /\ LoadWallet
    \/ AtRest /\ InitializeCall
    \/ AtRest /\ CleanupCall
    \/ AtRest /\ OperationCall
    \/ SubscribeResolves
    \/ SubscribeRejects
    \/ UnsubscribeResolves
    \/ UnsubscribeRejects

SpecDriftSequential == InitDrift /\ [][NextDriftSequential]_vars

-----------------------------------------------------------------------------
(* Properties of the DriftModule.                                           *)

\* the calls that had ended when the operation called last was called
EndedBefore == 1..drOp.at
Succeeded(i) == drLog[i] = Ended("initialize", TRUE)

\* no initialize had succeeded
BeforeAnySuccess == \A i \in EndedBefore : ~Succeeded(i)

\* the initialize that ended last had failed
AfterFailedInitialize ==
    \E i \in EndedBefore :
        /\ drLog[i] = Ended("initialize", FALSE)
        /\ \A j \in EndedBefore : (j > i) => (drLog[j].call # "initialize")

\* a cleanup had returned and no initialize had succeeded since
AfterCleanup ==
    \E i \in EndedBefore :
        /\ drLog[i] = Ended("cleanup", TRUE)
        /\ \A j \in EndedBefore : (j > i) => ~Succeeded(j)

\* C28: every DriftModule operation that uses the client fails with the 'not
\* initialized' error when it is called before any successful initialize,
\* after an initialize that failed, or after a cleanup with no later
\* successful initialize.
C28_NotInitialized ==
    (/\ drOp.name \in DriftOperations
     /\ BeforeAnySuccess \/ AfterFailedInitialize \/ AfterCleanup)
        => drOp.outcome = "notInitialized"

\* the two cases of C28 in which no earlier success is left standing
NotInitializedWithoutSuccess ==
    (/\ drOp.name \in DriftOperations
     /\ BeforeAnySuccess \/ AfterCleanup)
        => drOp.outcome = "notInitialized"

\* C30: after any sequence of initialize and cleanup calls, whenever
\* isInitialized is true the driftClient is a client whose subscribe
\* completed successfully and that has not been unsubscribed.
C30_InitializedMeansSubscribed ==
    drIsInitialized =>
        /\ drClient # 0
        /\ drClients[drClient].subscribed
        /\ ~drClients[drClient].unsubscribed

\* the same with no call in flight: every initialize and cleanup has ended
InitializedMeansSubscribedAtRest ==
    (drIsInitialized /\ AtRest) =>
        /\ drClient # 0
        /\ drClients[drClient].subscribed
        /\ ~drClients[drClient].unsubscribed

====
